---- MODULE Spec2Model ----
(***************************************************************************)
(* Model of the analytics importer: the upsert store of                    *)
(* backend/app/services/unified_data.py and data_persistence.py over the   *)
(* tables of backend/app/models/database.py, and the 3-source fan-out      *)
(* orchestrator fetch_and_store_all_data.                                  *)
(***************************************************************************)
EXTENDS Integers, Sequences, FiniteSets, TLC

\* ------------------------------------------------------------------ bounds
MaxDate  == 2      \* calendar days 1..MaxDate appear in fetched records
MaxBatch == 2      \* longest list handed to a store call
MaxTime  == 1      \* the clock (utcnow) runs 0..MaxTime
MaxCalls == 2      \* direct store calls per behaviour

\* ------------------------------------------------------------- data model
Tables == {"analytics_data", "search_console_data", "google_ads_data"}

Dates == 1..MaxDate

\* the entity id a service writes: settings value held by the adapter
EntityId(t) ==
    CASE t = "analytics_data"      -> "property"
      [] t = "search_console_data" -> "site"
      [] t = "google_ads_data"     -> "customer"
      [] t = "page_analytics_data" -> "property"
      [] t = "search_query_data"   -> "site"
      [] t = "search_page_data"    -> "site"

\* sub-entity ids: the ads table keys on campaign_id, the breakdown tables
\* on page_path, query and page; the daily tables have none
SubIds(t) ==
    CASE t = "google_ads_data"     -> {"1000000", "1000001"}
      [] t = "page_analytics_data" -> {"/"}
      [] t = "search_query_data"   -> {"praxis"}
      [] t = "search_page_data"    -> {"/"}
      [] OTHER                     -> {"none"}

\* metric columns of a table (one or two stand for the family)
Columns(t) ==
    CASE t = "analytics_data"      -> {"sessions", "organic_sessions"}
      [] t = "search_console_data" -> {"clicks"}
      [] t = "google_ads_data"     -> {"clicks"}
      [] t = "page_analytics_data" -> {"page_views"}
      [] t = "search_query_data"   -> {"clicks"}
      [] t = "search_page_data"    -> {"clicks"}

\* Column(..., default=0)
ColumnDefault == 0

\* the field sets the adapters emit: analytics has the enhanced record and
\* the basic record (no traffic-source fields) of the fallback
Shapes(t) ==
    IF t = "analytics_data"
    THEN {{"sessions", "organic_sessions"}, {"sessions"}}
    ELSE {Columns(t)}

\* the values a fetched record carries in a column (the default 0 is not
\* among them, so a stored value is told from an untouched column)
ColVals(t, c) ==
    IF c = "sessions" \/ t = "search_console_data" THEN {1, 2} ELSE {1}

ValMaps(t) ==
    UNION {{v \in [D -> {1, 2}] : \A c \in D : v[c] \in ColVals(t, c)} : D \in Shapes(t)}

Records(t) ==
    {[entity |-> EntityId(t), sub |-> s, date |-> d, vals |-> v] :
        s \in SubIds(t), d \in Dates, v \in ValMaps(t)}

Batches(t) == UNION {[1..n -> Records(t)] : n \in 0..MaxBatch}

KeyOf(r) == <<r.entity, r.sub, r.date>>

Keys(tbl) == {KeyOf(r) : r \in tbl}

EmptyDb == [t \in Tables |-> {}]

\* ------------------------------------------------------------------ state
VARIABLES
    db,      \* db[t]: the committed rows of table t
    now,     \* the clock read by datetime.utcnow()
    calls,   \* direct store calls made so far
    last,    \* the last storage operation: its input, outcome and the db before it
    pc,      \* position of the running fetch_and_store_all_data call
    results, \* its results dict: one entry per source
    overall_status,
    total_records_processed,
    trace,   \* per source, what happened in this run: times attempted, where it
             \* raised ("none", "fetch", "store"), the exception text, the data fetched
    client,  \* GoogleAdsService.client: TRUE when load_from_storage gave a client
    call,    \* the last call of a GoogleAdsService method or of
             \* test_all_connections: the vendor's answer and the result
    wall,    \* datetime.now(): the calendar day and the time of day
    http,    \* the last request of the HTTP surface: its parameter, the response
             \* code, the calls the handler made, the tables before and after it
    summary, \* the last report of get_unified_summary and the tables it read
    cycle    \* the store calls of two processes that run at the same time:
             \* per process its position, its list and its session

storeVars == <<db, now, calls, last>>
runVars == <<pc, results, overall_status, total_records_processed, trace>>
auxVars == <<client, call, wall, http, summary, cycle>>
vars == <<db, now, calls, last, pc, results, overall_status,
          total_records_processed, trace, client, call, wall, http, summary,
          cycle>>

NoOp == [op |-> "none", svc |-> "none", table |-> "none", input |-> <<>>,
         failAt |-> 0, status |-> "none", ret |-> 0, opened |-> 0, closed |-> 0,
         events |-> <<>>, at |-> 0, pre |-> EmptyDb, repeat |-> FALSE]

NoCall == [op |-> "none"]

NoRequest == [route |-> "none"]

NoSummary == [taken |-> FALSE]

NoCycles == <<>>

\* the parts of the state a specification does not use
NoAux ==
    /\ call = NoCall
    /\ wall = [day |-> MaxDate, tod |-> 0]
    /\ http = NoRequest
    /\ summary = NoSummary
    /\ cycle = NoCycles

\* ---------------------------------------------------------------- session
\* get_db_session(): sessionmaker(autocommit=False, autoflush=False): a query
\* reads the committed rows; objects added in the session are not flushed
\* before it, so they are invisible to the lookup.

\* first() of a query without ORDER BY: among rows of one key the default
\* sqlite database (settings.database_url) yields the lowest rowid
MinId(S) == CHOOSE r \in S : \A q \in S : r.id <= q.id

\* mutant: the lookup never matches a stored row
LookupMisses(tbl, rec) == 0

\* session.query(Model).filter(key columns == record key).first()
Lookup(tbl, rec) ==
    LET hits == {r \in tbl : KeyOf(r) = KeyOf(rec)}
    IN  IF hits = {} THEN 0 ELSE MinId(hits).id

\* mutant: the update leaves updated_at alone
UpdateRowNoStamp(t, r, rec, clock) ==
    [r EXCEPT !.entity = rec.entity, !.sub = rec.sub, !.date = rec.date,
              !.vals = [c \in Columns(t) |->
                          IF c \in DOMAIN rec.vals THEN rec.vals[c] ELSE r.vals[c]]]

\* mutant: the update replaces the whole row by the incoming record
UpdateRowReplace(t, r, rec, clock) ==
    [id |-> r.id, entity |-> rec.entity, sub |-> rec.sub, date |-> rec.date,
     vals |-> [c \in Columns(t) |->
                 IF c \in DOMAIN rec.vals THEN rec.vals[c] ELSE ColumnDefault],
     created_at |-> r.created_at, updated_at |-> clock]

\* for key, value in record.items(): if hasattr(existing, key): setattr(...)
\* existing.updated_at = datetime.utcnow()
\* (the key fields are items of the record too: they are set to the values
\* the lookup matched on)
UpdateRow(t, r, rec, clock) ==
    [r EXCEPT !.entity = rec.entity, !.sub = rec.sub, !.date = rec.date,
              !.vals = [c \in Columns(t) |->
                          IF c \in DOMAIN rec.vals THEN rec.vals[c] ELSE r.vals[c]],
              !.updated_at = clock]

\* Model(**record); created_at and updated_at take their column default
NewRow(t, rec, clock) ==
    [id |-> 0, entity |-> rec.entity, sub |-> rec.sub, date |-> rec.date,
     vals |-> [c \in Columns(t) |->
                 IF c \in DOMAIN rec.vals THEN rec.vals[c] ELSE ColumnDefault],
     created_at |-> clock, updated_at |-> clock]

\* mutant: stored_count is incremented for updated records too
LoopBodyCountsUpdates(t, tbl, sess, rec, clock) ==
    LET id == Lookup(tbl, rec)
    IN  IF id # 0
        THEN [sess EXCEPT !.rows =
                 {IF r.id = id THEN UpdateRow(t, r, rec, clock) ELSE r : r \in sess.rows},
                          !.stored_count = sess.stored_count + 1]
        ELSE [sess EXCEPT !.new = Append(sess.new, NewRow(t, rec, clock)),
                          !.stored_count = sess.stored_count + 1]

\* the session after the loop body ran on record rec: the identity map holds
\* the loaded rows (changed in place), new holds the pending objects
LoopBody(t, tbl, sess, rec, clock) ==
    LET id == Lookup(tbl, rec)
    IN  IF id # 0
        THEN [sess EXCEPT !.rows =
                 {IF r.id = id THEN UpdateRow(t, r, rec, clock) ELSE r : r \in sess.rows}]
        ELSE [sess EXCEPT !.new = Append(sess.new, NewRow(t, rec, clock)),
                          !.stored_count = sess.stored_count + 1]

RECURSIVE Loop(_, _, _, _, _, _)
Loop(t, tbl, sess, L, n, clock) ==
    IF n = 0 THEN sess
    ELSE LoopBody(t, tbl, Loop(t, tbl, sess, L, n - 1, clock), L[n], clock)

MaxIdOf(tbl) == IF tbl = {} THEN 0 ELSE (CHOOSE r \in tbl : \A q \in tbl : r.id >= q.id).id

\* session.commit(): flush the changed rows and insert the pending ones; the
\* integer primary key of a new row is the largest id plus one
Commit(tbl, sess) ==
    sess.rows \cup {[sess.new[i] EXCEPT !.id = MaxIdOf(tbl) + i] : i \in 1..Len(sess.new)}

\* mutant: the except branch keeps what the session did so far
RollbackKeeps(tbl, sess) == Commit(tbl, sess)

\* session.rollback(): every change of the session is dropped
Rollback(tbl, sess) == tbl

\* mutant: the session is closed after the try body, not in a finally clause
SessionEventsNoFinally(kind, raised) ==
    IF raised
    THEN <<"open">> \o (IF kind = "summary" THEN <<>> ELSE <<"rollback">>)
    ELSE <<"open">> \o (IF kind = "summary" THEN <<>> ELSE <<"commit">>) \o <<"close">>

\* the calls an operation makes on its session: session = get_db_session();
\* try: ...; session.commit() / except: session.rollback() / finally:
\* session.close(); the summary only queries, and its except branch returns
SessionEvents(kind, raised) ==
    <<"open">>
    \o (IF kind = "summary" THEN <<>>
        ELSE IF raised THEN <<"rollback">> ELSE <<"commit">>)
    \o <<"close">>

\* how often the session call e is in a list of session calls
CountOf(events, e) == Cardinality({i \in 1..Len(events) : events[i] = e})

\* mutant: the model class accepts any keyword and drops the unknown ones
ConstructsAnything(t, rec) == TRUE

\* AnalyticsData(**record): the declarative constructor raises TypeError for
\* a keyword that is not an attribute of the class
Constructs(t, rec) == DOMAIN rec.vals \subseteq Columns(t)

\* the first record of the list on which the loop body raises by itself:
\* the lookup finds no row and the constructor rejects the record (0: none)
TypeErrorAt(t, tbl, L) ==
    LET bad == {i \in 1..Len(L) : Lookup(tbl, L[i]) = 0 /\ ~Constructs(t, L[i])}
    IN  IF bad = {} THEN 0 ELSE CHOOSE i \in bad : \A j \in bad : i <= j

\* try: loop; commit; return stored_count / except: rollback; raise
\* storageFailAt = 0: the storage engine does not fail; i in 1..Len(L): it
\* raises on record i; Len(L) + 1: the commit raises
RunSession(t, tbl, L, storageFailAt, clock) ==
    LET typeErr == TypeErrorAt(t, tbl, L)
        failAt == IF typeErr # 0 /\ (storageFailAt = 0 \/ typeErr <= storageFailAt)
                  THEN typeErr ELSE storageFailAt
        done == IF failAt = 0 THEN Len(L)
                ELSE IF failAt <= Len(L) THEN failAt - 1 ELSE Len(L)
        sess == Loop(t, tbl, [rows |-> tbl, new |-> <<>>, stored_count |-> 0],
                     L, done, clock)
        events == SessionEvents("store", failAt # 0)
    IN  IF failAt = 0
        THEN [status |-> "ok", ret |-> sess.stored_count, table |-> Commit(tbl, sess),
              opened |-> CountOf(events, "open"), closed |-> CountOf(events, "close"),
              events |-> events]
        ELSE [status |-> "raised", ret |-> 0, table |-> Rollback(tbl, sess),
              opened |-> CountOf(events, "open"), closed |-> CountOf(events, "close"),
              events |-> events]

\* UnifiedDataService._store_analytics_data, _store_search_console_data,
\* _store_google_ads_data: "if not data: return 0" comes before the session
UnifiedStore(t, tbl, L, failAt, clock) ==
    IF L = <<>>
    THEN [status |-> "ok", ret |-> 0, table |-> tbl, opened |-> 0, closed |-> 0,
          events |-> <<>>]
    ELSE RunSession(t, tbl, L, failAt, clock)

\* DataPersistenceService.store_analytics_data: the session is opened first
PersistenceStore(tbl, L, failAt, clock) ==
    RunSession("analytics_data", tbl, L, failAt, clock)

\* where a call can fail: nowhere (0), on record i, or in the commit; with no
\* record nothing is sent to the storage engine, and nothing can fail
FailPoints(L) == 0..(Len(L) + 1)

StoreFailPoints(L) == IF L = <<>> THEN {0} ELSE FailPoints(L)

\* ---------------------------------------------------------------- actions
\* results = {'google_analytics': {'status': 'skipped', 'message': 'Not attempted'},
\* ...}; -1 stands for a key the entry does not hold
Skipped == [status |-> "skipped", message |-> [text |-> "Not attempted", n |-> -1],
            records_fetched |-> -1, records_stored |-> -1]

Sources == {"google_analytics", "search_console", "google_ads"}

NoRun ==
    /\ pc = "idle"
    /\ results = [s \in Sources |-> Skipped]
    /\ overall_status = "unknown"
    /\ total_records_processed = 0
    /\ trace = [s \in Sources |->
                  [attempts |-> 0, raised |-> "none", exc |-> "", data |-> <<>>,
                   events |-> <<>>]]

Init ==
    /\ db = EmptyDb
    /\ now = 0
    /\ calls = 0
    /\ last = NoOp
    /\ NoRun
    /\ client = FALSE
    /\ NoAux

Record(svc, t, L, f, res) ==
    [op |-> "store", svc |-> svc, table |-> t, input |-> L, failAt |-> f,
     status |-> res.status, ret |-> res.ret, opened |-> res.opened,
     closed |-> res.closed, events |-> res.events, at |-> now, pre |-> db,
     \* the call before this one stored the same list in the same table
     repeat |-> (last.op = "store" /\ last.status = "ok" /\ last.table = t
                 /\ last.input = L)]

\* a call of one of the three _store_* methods of UnifiedDataService
StoreUnified ==
    /\ calls < MaxCalls
    /\ \E t \in Tables : \E L \in Batches(t) :
         \E f \in StoreFailPoints(L) :
           LET res == UnifiedStore(t, db[t], L, f, now)
           IN  /\ db' = [db EXCEPT ![t] = res.table]
               /\ last' = Record("unified", t, L, f, res)
    /\ calls' = calls + 1
    /\ UNCHANGED now
    /\ UNCHANGED runVars
    /\ UNCHANGED auxVars

\* a call of DataPersistenceService.store_analytics_data
StorePersistence ==
    /\ calls < MaxCalls
    /\ \E L \in Batches("analytics_data") : \E f \in StoreFailPoints(L) :
           LET res == PersistenceStore(db["analytics_data"], L, f, now)
           IN  /\ db' = [db EXCEPT !["analytics_data"] = res.table]
               /\ last' = Record("persistence", "analytics_data", L, f, res)
    /\ calls' = calls + 1
    /\ UNCHANGED now
    /\ UNCHANGED runVars
    /\ UNCHANGED auxVars

\* time passes between calls
Tick ==
    /\ now < MaxTime
    /\ now' = now + 1
    /\ UNCHANGED <<db, calls, last>>
    /\ UNCHANGED runVars
    /\ UNCHANGED auxVars

Next == StoreUnified \/ StorePersistence \/ Tick

Spec == Init /\ [][Next]_vars

\* ----------------------------------------------------------- orchestrator
MaxRunBatch == 1   \* longest list a source's fetch returns in a run

RunBatches(t) == {L \in Batches(t) : Len(L) <= MaxRunBatch}

TableOf(s) ==
    CASE s = "google_analytics" -> "analytics_data"
      [] s = "search_console"   -> "search_console_data"
      [] s = "google_ads"       -> "google_ads_data"
      [] s = "page_analytics"   -> "page_analytics_data"
      [] s = "search_queries"   -> "search_query_data"
      [] s = "search_pages"     -> "search_page_data"

\* str(e) of what a vendor call and what the storage engine raise
VendorErrors == {"quota exceeded"}
StorageError == "database is locked"

\* except Exception as e: results[s] = {'status': 'error', 'message': str(e),
\*                                      'records_fetched': 0, 'records_stored': 0}
ErrorEntry(e) ==
    [status |-> "error", message |-> [text |-> e, n |-> -1],
     records_fetched |-> 0, records_stored |-> 0]

\* results[s] = {'status': ..., 'records_fetched': len(data),
\*               'records_stored': stored, 'message': f'... {len(data)} ...'}
DoneEntry(status, text, data, stored) ==
    [status |-> status, message |-> [text |-> text, n |-> Len(data)],
     records_fetched |-> Len(data), records_stored |-> stored]

\* the entry of the google_ads block: 'success' if ads_data else 'warning'
AdsEntry(data, stored) ==
    IF data # <<>>
    THEN DoneEntry("success", "Successfully processed Ads records", data, stored)
    ELSE [DoneEntry("warning", "Google Ads not configured", data, stored)
            EXCEPT !.message.n = -1]

SourceEntry(s, data, stored) ==
    CASE s = "google_analytics" ->
           DoneEntry("success", "Successfully processed GA records", data, stored)
      [] s = "search_console" ->
           DoneEntry("success", "Successfully processed GSC records", data, stored)
      [] s = "google_ads" -> AdsEntry(data, stored)

\* mutant: an exception of one source ends the fan-out
AfterErrorAborts(s, next) == "status"

\* mutant: the exception of a try block is not caught and leaves the run
AfterErrorEscapes(s, next) == "raised"

\* where control goes when the try block of source s raised
AfterError(s, next) == next

\* the fetch of source s raises e: the except branch records it
FetchRaises(s, e, next) ==
    /\ results' = [results EXCEPT ![s] = ErrorEntry(e)]
    /\ trace' = [trace EXCEPT ![s] = [attempts |-> @.attempts + 1, raised |-> "fetch",
                                      exc |-> e, data |-> <<>>, events |-> <<>>]]
    /\ pc' = AfterError(s, next)
    /\ UNCHANGED <<db, last>>

\* mutant: the run shares one session, so a failed store also rolls back
\* what the store call before it committed
FetchStoresSharedSession(s, data, f, next) ==
    LET t   == TableOf(s)
        res == UnifiedStore(t, db[t], data, f, now)
    IN  /\ last' = Record("unified", t, data, f, res)
        /\ IF res.status = "ok"
           THEN /\ db' = [db EXCEPT ![t] = res.table]
                /\ results' = [results EXCEPT ![s] = SourceEntry(s, data, res.ret)]
                /\ trace' = [trace EXCEPT ![s] = [attempts |-> @.attempts + 1,
                                raised |-> "none", exc |-> "", data |-> data,
                                events |-> res.events]]
                /\ pc' = next
           ELSE /\ db' = IF last.op = "store" THEN last.pre ELSE db
                /\ results' = [results EXCEPT ![s] = ErrorEntry(StorageError)]
                /\ trace' = [trace EXCEPT ![s] = [attempts |-> @.attempts + 1,
                                raised |-> "store", exc |-> StorageError, data |-> data,
                                events |-> res.events]]
                /\ pc' = AfterError(s, next)

\* the fetch of source s returns data, _store_*(data) runs and fails at f
FetchStores(s, data, f, next) ==
    LET t   == TableOf(s)
        res == UnifiedStore(t, db[t], data, f, now)
    IN  /\ db' = [db EXCEPT ![t] = res.table]
        /\ last' = Record("unified", t, data, f, res)
        /\ IF res.status = "ok"
           THEN /\ results' = [results EXCEPT ![s] = SourceEntry(s, data, res.ret)]
                /\ trace' = [trace EXCEPT ![s] = [attempts |-> @.attempts + 1,
                                raised |-> "none", exc |-> "", data |-> data,
                                events |-> res.events]]
                /\ pc' = next
           ELSE /\ results' = [results EXCEPT ![s] = ErrorEntry(StorageError)]
                /\ trace' = [trace EXCEPT ![s] = [attempts |-> @.attempts + 1,
                                raised |-> "store", exc |-> StorageError, data |-> data,
                                events |-> res.events]]
                /\ pc' = AfterError(s, next)

\* fetch_and_store_all_data is entered: results is initialised
StartRun ==
    /\ pc = "idle"
    /\ pc' = "google_analytics"
    /\ results' = [s \in Sources |-> Skipped]
    /\ overall_status' = "unknown"
    /\ total_records_processed' = 0
    /\ UNCHANGED <<storeVars, trace>>
    /\ UNCHANGED auxVars

\* the Google Analytics try block
FetchStoreGA ==
    /\ pc = "google_analytics"
    /\ \/ \E e \in VendorErrors : FetchRaises("google_analytics", e, "search_console")
       \/ \E data \in RunBatches("analytics_data") : \E f \in StoreFailPoints(data) :
            FetchStores("google_analytics", data, f, "search_console")
    /\ UNCHANGED <<now, calls, overall_status, total_records_processed>>
    /\ UNCHANGED auxVars

\* the Search Console try block
FetchStoreGSC ==
    /\ pc = "search_console"
    /\ \/ \E e \in VendorErrors : FetchRaises("search_console", e, "google_ads")
       \/ \E data \in RunBatches("search_console_data") : \E f \in StoreFailPoints(data) :
            FetchStores("search_console", data, f, "google_ads")
    /\ UNCHANGED <<now, calls, overall_status, total_records_processed>>
    /\ UNCHANGED auxVars

\* ------------------------------------------------------- ads adapter fetch
\* what ga_service.search(request) raises: a GoogleAdsException or another
\* exception (the two except branches of fetch_campaign_performance)
AdsExceptions == {"GoogleAdsException", "Exception"}

\* what the vendor call of an adapter does; without a client it is not made
AdsVendor(cl) == IF cl THEN {"rows"} \cup AdsExceptions ELSE {"not called"}

\* campaign ids of the mock list: str(1000000 + i) for i, campaign_name in
\* enumerate(campaigns) (the first two of the four stand for the list)
MockCampaigns == <<"1000000", "1000001">>

\* start_dt..end_dt of a mock call, start_dt <= end_dt
MockWindows == {w \in Dates \X Dates : w[1] <= w[2]}

\* _get_mock_campaign_data: while current_date <= end_dt: for each campaign:
\* a record with random metrics; the k-th record of the list is campaign
\* ((k-1) mod n)+1 on day start_dt + (k-1) div n
MockData(w) ==
    LET n   == Len(MockCampaigns)
        len == (w[2] - w[1] + 1) * n
    IN  {[k \in 1..len |->
            [entity |-> EntityId("google_ads_data"),
             sub    |-> MockCampaigns[((k - 1) % n) + 1],
             date   |-> w[1] + ((k - 1) \div n),
             vals   |-> [c \in {"clicks"} |-> v[k]]]] :
         v \in [1..len -> ColVals("google_ads_data", "clicks")]}

\* fetch_campaign_performance: if not self.client: return mock; try: search,
\* build data, return data; except GoogleAdsException / Exception: return mock
fetch_campaign_performance(cl, vendor, live, mock) ==
    IF ~cl THEN [data |-> mock, origin |-> "mock"]
    ELSE IF vendor = "rows" THEN [data |-> live, origin |-> "live"]
    ELSE [data |-> mock, origin |-> "mock"]

\* the lists the vendor call and the mock generator can give for one call
AdsLive(vendor) == IF vendor = "rows" THEN RunBatches("google_ads_data") ELSE {<<>>}

AdsMock(vendor) ==
    IF vendor = "rows" THEN {<<>>} ELSE UNION {MockData(w) : w \in MockWindows}

\* the Google Ads try block: fetch_campaign_performance turns every vendor
\* error into its mock data, so only the store can raise here
FetchStoreAds ==
    /\ pc = "google_ads"
    /\ \E vendor \in AdsVendor(client) :
         \E live \in AdsLive(vendor) : \E mock \in AdsMock(vendor) :
           LET r == fetch_campaign_performance(client, vendor, live, mock)
           IN  /\ \E f \in StoreFailPoints(r.data) :
                     FetchStores("google_ads", r.data, f, "status")
               /\ call' = [op |-> "fetch_campaign_performance", client |-> client,
                           vendor |-> vendor, origin |-> r.origin, data |-> r.data,
                           raised |-> FALSE]
    /\ UNCHANGED <<now, calls, overall_status, total_records_processed>>
    /\ UNCHANGED <<client, wall, http, summary, cycle>>

\* mutant: entries of status 'warning' are counted as successes
SuccessCountWithWarnings(res) ==
    Cardinality({s \in DOMAIN res : res[s].status \in {"success", "warning"}})

\* success_count = sum(1 for service in results.values()
\*                     if isinstance(service, dict) and service.get('status') == 'success')
SuccessCount(res) == Cardinality({s \in DOMAIN res : res[s].status = "success"})

total_services == 3

\* mutant: two successes already give 'success'
OverallOfLoose(success_count) ==
    IF success_count >= 2 THEN "success"
    ELSE IF success_count > 0 THEN "partial_success"
    ELSE "failed"

\* if success_count == total_services: 'success' / elif success_count > 0:
\* 'partial_success' / else: 'failed'
OverallOf(success_count) ==
    IF success_count = total_services THEN "success"
    ELSE IF success_count > 0 THEN "partial_success"
    ELSE "failed"

RECURSIVE SumOver(_, _)
SumOver(S, f) ==
    IF S = {} THEN 0
    ELSE LET x == CHOOSE y \in S : TRUE IN f[x] + SumOver(S \ {x}, f)

\* mutant: the total adds up what was stored
TotalRecordsStored(res) ==
    LET have == {s \in DOMAIN res : res[s].records_stored # -1}
    IN  SumOver(have, [s \in have |-> res[s].records_stored])

\* sum(service.get('records_processed', service.get('records_fetched', 0))
\*     for service in results.values() if ... 'records_fetched' in service)
TotalRecords(res) ==
    LET have == {s \in DOMAIN res : res[s].records_fetched # -1}
    IN  SumOver(have, [s \in have |-> res[s].records_fetched])

\* the status and total computation, and the return
OverallStatus ==
    /\ pc = "status"
    /\ overall_status' = OverallOf(SuccessCount(results))
    /\ total_records_processed' = TotalRecords(results)
    /\ pc' = "returned"
    /\ UNCHANGED <<storeVars, results, trace>>
    /\ UNCHANGED auxVars

\* the tables a run can find: each is empty or holds a row stored earlier
SeedRow(t) ==
    [id |-> 1, entity |-> EntityId(t), sub |-> CHOOSE s \in SubIds(t) : TRUE,
     date |-> 1, vals |-> [c \in Columns(t) |-> 1], created_at |-> 0, updated_at |-> 0]

SeedDbs == {d \in [Tables -> SUBSET {SeedRow(t) : t \in Tables}] :
              \A t \in Tables : d[t] \subseteq {SeedRow(t)}}

InitRun ==
    /\ db \in SeedDbs
    /\ now = 0
    /\ calls = 0
    /\ last = NoOp
    /\ NoRun
    /\ client \in BOOLEAN
    /\ NoAux

NextRun ==
    \/ StartRun \/ FetchStoreGA \/ FetchStoreGSC \/ FetchStoreAds \/ OverallStatus
    \/ Tick

SpecRun == InitRun /\ [][NextRun]_vars

\* -------------------------------------------------- enhanced orchestrator
\* fetch_and_store_enhanced_data: six try blocks in this order
EnhancedSources == {"google_analytics", "page_analytics", "search_console",
                    "search_queries", "search_pages", "google_ads"}

EnhancedTables == {TableOf(s) : s \in EnhancedSources}

EmptyEnhancedDb == [t \in EnhancedTables |-> {}]

\* def fetch_and_store_enhanced_data(self, days_back: int = 7)
DefaultDaysBack == 7

\* end_date = datetime.now().date(); start_date = end_date - timedelta(days_back)
\* date_range_str = f"{start_date}_{end_date}"
DateRangeStr(today, days_back) == <<today - days_back, today>>

\* the rows fetch_top_queries and fetch_top_pages build: no date_range yet
BreakdownRows(t) ==
    {[entity |-> EntityId(t), sub |-> q, vals |-> v] : q \in SubIds(t), v \in ValMaps(t)}

BreakdownBatches(t) == UNION {[1..n -> BreakdownRows(t)] : n \in 0..MaxRunBatch}

\* for record in query_data: record['date_range'] = date_range_str
\* (fetch_page_analytics sets 'date_range' itself, from the same two dates)
WithDateRange(L, label) ==
    [i \in 1..Len(L) |->
       [entity |-> L[i].entity, sub |-> L[i].sub, date |-> label, vals |-> L[i].vals]]

\* the lists the three daily sources return in an enhanced run: records of
\* the last day of the window
EnhancedBatches(t) == {L \in RunBatches(t) : \A i \in 1..Len(L) : L[i].date = MaxDate}

\* the success entries of the six blocks
EnhancedEntry(s, data, stored) ==
    CASE s = "google_analytics" ->
           DoneEntry("success", "Successfully processed GA records with traffic sources",
                     data, stored)
      [] s = "page_analytics" ->
           DoneEntry("success", "Successfully processed page analytics records",
                     data, stored)
      [] s = "search_console" ->
           DoneEntry("success", "Successfully processed GSC records", data, stored)
      [] s = "search_queries" ->
           DoneEntry("success", "Successfully processed search query records",
                     data, stored)
      [] s = "search_pages" ->
           DoneEntry("success", "Successfully processed search page records",
                     data, stored)
      [] s = "google_ads" -> AdsEntry(data, stored)

\* a try block of the enhanced run whose fetch returned data: the _store_*
\* method of the source runs and fails at f
EnhancedStores(s, data, f, next) ==
    LET t   == TableOf(s)
        res == UnifiedStore(t, db[t], data, f, now)
    IN  /\ db' = [db EXCEPT ![t] = res.table]
        /\ last' = Record("unified", t, data, f, res)
        /\ IF res.status = "ok"
           THEN /\ results' = [results EXCEPT ![s] = EnhancedEntry(s, data, res.ret)]
                /\ trace' = [trace EXCEPT ![s] = [attempts |-> @.attempts + 1,
                                raised |-> "none", exc |-> "", data |-> data,
                                events |-> res.events]]
                /\ pc' = next
           ELSE /\ results' = [results EXCEPT ![s] = ErrorEntry(StorageError)]
                /\ trace' = [trace EXCEPT ![s] = [attempts |-> @.attempts + 1,
                                raised |-> "store", exc |-> StorageError, data |-> data,
                                events |-> res.events]]
                /\ pc' = AfterError(s, next)

\* fetch_and_store_enhanced_data is entered: results is initialised
StartEnhanced ==
    /\ pc = "idle"
    /\ pc' = "e_google_analytics"
    /\ results' = [s \in EnhancedSources |-> Skipped]
    /\ trace' = [s \in EnhancedSources |->
                   [attempts |-> 0, raised |-> "none", exc |-> "", data |-> <<>>,
                   events |-> <<>>]]
    /\ overall_status' = "unknown"
    /\ total_records_processed' = 0
    /\ UNCHANGED storeVars
    /\ UNCHANGED auxVars

\* a block whose source is a daily table
EnhancedDaily(s, here, next) ==
    /\ pc = here
    /\ \/ \E e \in VendorErrors : FetchRaises(s, e, next)
       \/ \E data \in EnhancedBatches(TableOf(s)) : \E f \in StoreFailPoints(data) :
            EnhancedStores(s, data, f, next)
    /\ UNCHANGED <<now, calls, overall_status, total_records_processed>>
    /\ UNCHANGED auxVars

\* a block whose source is a breakdown over the window of the run
EnhancedBreakdown(s, here, next) ==
    /\ pc = here
    /\ \/ \E e \in VendorErrors : FetchRaises(s, e, next)
       \/ \E rows \in BreakdownBatches(TableOf(s)) :
            LET data == WithDateRange(rows, DateRangeStr(wall.day, DefaultDaysBack))
            IN  \E f \in StoreFailPoints(data) : EnhancedStores(s, data, f, next)
    /\ UNCHANGED <<now, calls, overall_status, total_records_processed>>
    /\ UNCHANGED auxVars

EnhancedGA == EnhancedDaily("google_analytics", "e_google_analytics", "e_page_analytics")

EnhancedPages == EnhancedBreakdown("page_analytics", "e_page_analytics", "e_search_console")

EnhancedGSC == EnhancedDaily("search_console", "e_search_console", "e_search_queries")

EnhancedQueries == EnhancedBreakdown("search_queries", "e_search_queries", "e_search_pages")

EnhancedSearchPages == EnhancedBreakdown("search_pages", "e_search_pages", "e_google_ads")

\* the Google Ads block of the enhanced run
EnhancedAds ==
    /\ pc = "e_google_ads"
    /\ \E vendor \in AdsVendor(client) :
         \E live \in AdsLive(vendor) \cap EnhancedBatches("google_ads_data") :
           \E mock \in (IF vendor = "rows" THEN {<<>>}
                         ELSE MockData(<<MaxDate, MaxDate>>)) :
             LET r == fetch_campaign_performance(client, vendor, live, mock)
             IN  /\ \E f \in StoreFailPoints(r.data) :
                       EnhancedStores("google_ads", r.data, f, "e_status")
                 /\ call' = [op |-> "fetch_campaign_performance", client |-> client,
                             vendor |-> vendor, origin |-> r.origin, data |-> r.data,
                             raised |-> FALSE]
    /\ UNCHANGED <<now, calls, overall_status, total_records_processed>>
    /\ UNCHANGED <<client, wall, http, summary, cycle>>

\* mutant: the enhanced run uses the threshold of the 3-source run
EnhancedOverallOfStrict(success_count) ==
    IF success_count = 6 THEN "success"
    ELSE IF success_count > 0 THEN "partial_success"
    ELSE "failed"

\* if success_count >= 4: 'success' / elif success_count >= 2:
\* 'partial_success' / else: 'failed'
EnhancedOverallOf(success_count) ==
    IF success_count >= 4 THEN "success"
    ELSE IF success_count >= 2 THEN "partial_success"
    ELSE "failed"

\* the status and total computation of the enhanced run, and the return
EnhancedStatus ==
    /\ pc = "e_status"
    /\ overall_status' = EnhancedOverallOf(SuccessCount(results))
    /\ total_records_processed' = TotalRecords(results)
    /\ pc' = "e_returned"
    /\ UNCHANGED <<storeVars, results, trace>>
    /\ UNCHANGED auxVars

\* the tables a run can find: all empty, or with a row an earlier run on the
\* same day left in analytics_data and in search_query_data
EnhancedSeedDbs ==
    LET q == "search_query_data"
    IN  {EmptyEnhancedDb,
         [EmptyEnhancedDb EXCEPT
            !["analytics_data"] = {SeedRow("analytics_data")},
            ![q] = {[SeedRow(q) EXCEPT
                       !.date = DateRangeStr(MaxDate, DefaultDaysBack)]}]}

InitEnhanced ==
    /\ db \in EnhancedSeedDbs
    /\ now = 0
    /\ calls = 0
    /\ last = NoOp
    /\ NoRun
    /\ client \in BOOLEAN
    /\ NoAux

\* one run of either orchestrator
NextEnhanced ==
    \/ StartRun \/ FetchStoreGA \/ FetchStoreGSC \/ FetchStoreAds \/ OverallStatus
    \/ StartEnhanced \/ EnhancedGA \/ EnhancedPages \/ EnhancedGSC
    \/ EnhancedQueries \/ EnhancedSearchPages \/ EnhancedAds \/ EnhancedStatus

SpecEnhanced == InitEnhanced /\ [][NextEnhanced]_vars

\* the lists of a run whose records carry every metric of their table, with
\* the value 1: the values steer no branch of the orchestrators
PlainData(L) ==
    \A i \in 1..Len(L) :
      /\ DOMAIN L[i].vals # {"sessions"}
      /\ \A c \in DOMAIN L[i].vals : L[i].vals[c] = 1

PlainRun == \A s \in DOMAIN trace : PlainData(trace[s].data)

\* the steps of either orchestrator over plain lists; every block can still
\* raise in its fetch, raise at any point of its store, or succeed
NextLive ==
    \/ StartRun /\ PlainRun'
    \/ FetchStoreGA /\ PlainRun'
    \/ FetchStoreGSC /\ PlainRun'
    \/ FetchStoreAds /\ PlainRun'
    \/ OverallStatus /\ PlainRun'
    \/ StartEnhanced /\ PlainRun'
    \/ EnhancedGA /\ PlainRun'
    \/ EnhancedPages /\ PlainRun'
    \/ EnhancedGSC /\ PlainRun'
    \/ EnhancedQueries /\ PlainRun'
    \/ EnhancedSearchPages /\ PlainRun'
    \/ EnhancedAds /\ PlainRun'
    \/ EnhancedStatus /\ PlainRun'

\* the run is straight-line code of one thread: the statement at pc is
\* executed, so a step that is possible is eventually taken
InitLive == InitEnhanced /\ db = EmptyEnhancedDb

SpecEnhancedLive == InitLive /\ [][NextLive]_vars /\ WF_vars(NextLive)

\* ----------------------------------------------------------- HTTP surface
MaxKeep == 8       \* the largest days_to_keep of a cleanup
MaxTod  == 1       \* time of day of datetime.now(): 0 is midnight, 1..MaxTod later

\* if days_back < 1 or days_back > 365
MinDaysBack == 1
MaxDaysBack == 365

\* if days_to_keep < 7
MinDaysToKeep == 7

\* the days the wall clock runs through: on the first a row of day 1 is
\* MinDaysToKeep - 1 days old, on the last a row of day MaxDate is MaxKeep
\* days old
FirstWallDay == MinDaysToKeep

MaxWallDay == MaxDate + MaxKeep

\* the days_back values of the requests
DaysBackInputs ==
    {MinDaysBack - 2, MinDaysBack - 1, MinDaysBack, DefaultDaysBack, MaxDaysBack,
     MaxDaysBack + 1, 400}

\* the days_to_keep values of the calls and requests
DaysToKeepInputs == {0, MinDaysToKeep - 1, MinDaysToKeep, MaxKeep}

\* a DateTime value: a calendar day and the time of day; a date stored in a
\* DateTime column is midnight of its day
Midnight(d) == [day |-> d, tod |-> 0]

\* datetime < datetime
Before(a, b) == a.day < b.day \/ (a.day = b.day /\ a.tod < b.tod)

\* cutoff_date = datetime.now() - timedelta(days=days_to_keep)
CutoffDate(clock, days_to_keep) == [day |-> clock.day - days_to_keep, tod |-> clock.tod]

\* session.query(AnalyticsData).filter(AnalyticsData.date < cutoff_date)
Swept(tbl, cutoff) == {r \in tbl : Before(Midnight(r.date), cutoff)}

\* DataPersistenceService.cleanup_old_data: delete(), commit, return
\* deleted_count / except: rollback, raise
CleanupOldData(tbl, days_to_keep, fails, clock) ==
    LET gone   == Swept(tbl, CutoffDate(clock, days_to_keep))
        events == SessionEvents("cleanup", fails)
    IN  IF fails
        THEN [status |-> "raised", ret |-> 0, table |-> tbl,
              opened |-> CountOf(events, "open"), closed |-> CountOf(events, "close"),
              events |-> events]
        ELSE [status |-> "ok", ret |-> Cardinality(gone), table |-> tbl \ gone,
              opened |-> CountOf(events, "open"), closed |-> CountOf(events, "close"),
              events |-> events]

\* mutant: the sweep runs over every table
CleanupTablesAll == Tables

\* session.query(AnalyticsData): the one model class the sweep queries
CleanupTables == {"analytics_data"}

\* the tables after a call of cleanup_old_data
AfterCleanup(d, days_to_keep, fails, clock) ==
    [t \in DOMAIN d |->
       IF t \in CleanupTables
       THEN CleanupOldData(d[t], days_to_keep, fails, clock).table
       ELSE d[t]]

RecordCleanup(days_to_keep, fails, res) ==
    [op |-> "cleanup", svc |-> "persistence", table |-> "analytics_data",
     input |-> days_to_keep, failAt |-> IF fails THEN 1 ELSE 0,
     status |-> res.status, ret |-> res.ret, opened |-> res.opened,
     closed |-> res.closed, events |-> res.events, at |-> wall, pre |-> db,
     repeat |-> FALSE]

\* a direct call of DataPersistenceService.cleanup_old_data
Cleanup ==
    /\ calls < MaxCalls
    /\ \E k \in DaysToKeepInputs : \E fails \in BOOLEAN :
         LET res == CleanupOldData(db["analytics_data"], k, fails, wall)
         IN  /\ db' = AfterCleanup(db, k, fails, wall)
             /\ last' = RecordCleanup(k, fails, res)
    /\ calls' = calls + 1
    /\ UNCHANGED <<now, client, call, wall, http, summary, cycle>>
    /\ UNCHANGED runVars

\* mutant: a cleanup of 6 days is let through
DaysToKeepValidLoose(days_to_keep) == ~(days_to_keep < MinDaysToKeep - 1)

\* if days_to_keep < 7: raise HTTPException(status_code=400, ...)
DaysToKeepValid(days_to_keep) == ~(days_to_keep < MinDaysToKeep)

\* what a handler raises: raise HTTPException(status_code=..., detail=...),
\* or an exception e of the service it calls, of text str(e)
HTTPException(status_code, detail) ==
    [kind |-> "HTTPException", status_code |-> status_code, detail |-> detail]

ServiceException(text) == [kind |-> "Exception", status_code |-> 0, detail |-> text]

\* the handler returned its result
Returns == [kind |-> "none", status_code |-> 200, detail |-> ""]

\* mutant: the handler has no 'except HTTPException: raise' clause
SurfaceNoReraise(exc) ==
    IF exc.kind = "none" THEN [code |-> 200, detail |-> ""]
    ELSE [code |-> 500, detail |-> exc.detail]

\* the response of a handler whose try body ended in exc:
\* except HTTPException: raise
\* except Exception as e: raise HTTPException(status_code=500, detail=str(e))
Surface(exc) ==
    IF exc.kind = "none" THEN [code |-> 200, detail |-> ""]
    ELSE IF exc.kind = "HTTPException"
    THEN [code |-> exc.status_code, detail |-> exc.detail]
    ELSE [code |-> 500, detail |-> exc.detail]

\* POST /cleanup-data
PostCleanupData ==
    /\ calls < MaxCalls
    /\ \E k \in DaysToKeepInputs :
         IF ~DaysToKeepValid(k)
         THEN LET exc == HTTPException(400, "days_to_keep must be at least 7")
              IN  /\ http' = [route |-> "cleanup-data", param |-> k,
                              code |-> Surface(exc).code,
                              detail |-> Surface(exc).detail, cause |-> "validation",
                              vendor_calls |-> 0, sessions |-> 0, swept |-> <<>>,
                              body |-> 0, at |-> wall, pre |-> db, post |-> db]
                  /\ UNCHANGED <<db, last>>
         ELSE \E fails \in BOOLEAN :
                LET res == CleanupOldData(db["analytics_data"], k, fails, wall)
                    exc == IF fails THEN ServiceException(StorageError) ELSE Returns
                IN  /\ db' = AfterCleanup(db, k, fails, wall)
                    /\ last' = RecordCleanup(k, fails, res)
                    /\ http' = [route |-> "cleanup-data", param |-> k,
                                code |-> Surface(exc).code,
                                detail |-> Surface(exc).detail,
                                cause |-> IF fails THEN "exception" ELSE "none",
                                vendor_calls |-> 0, sessions |-> res.opened,
                                swept |-> <<k>>, body |-> res.ret, at |-> wall,
                                pre |-> db,
                                post |-> AfterCleanup(db, k, fails, wall)]
    /\ calls' = calls + 1
    /\ UNCHANGED <<now, client, call, wall, summary, cycle>>
    /\ UNCHANGED runVars

\* GoogleAnalyticsService.fetch_data_for_date_range: end_date = today,
\* start_date = end_date - days_back; the report holds rows of these days
WindowBatches(today, days_back) ==
    {L \in RunBatches("analytics_data") :
       \A i \in 1..Len(L) : today - days_back <= L[i].date /\ L[i].date <= today}

\* mutant: a request of 0 days is let through
DaysBackValidLoose(days_back) == ~(days_back < MinDaysBack - 1 \/ days_back > MaxDaysBack)

\* if days_back < 1 or days_back > 365: raise HTTPException(status_code=400, ...)
DaysBackValid(days_back) == ~(days_back < MinDaysBack \/ days_back > MaxDaysBack)

\* fetch_and_store_recent_data: except Exception as e: return {'status':
\* 'error', 'message': str(e), 'records_processed': 0}
ErrorResult(e) == [status |-> "error", message |-> e]

\* the try body of fetch_analytics_data after the service returned result:
\* if result['status'] == 'error': raise HTTPException(status_code=500,
\* detail=result['message']); return result
AfterResult(result) ==
    IF result.status = "error" THEN HTTPException(500, result.message) ELSE Returns

\* POST /fetch-data: validation, then fetch_and_store_recent_data, whose
\* 'error' result becomes a 500 response
PostFetchData ==
    /\ calls < MaxCalls
    /\ \E n \in DaysBackInputs :
         LET rsp(exc, cause, v, opened, body, post) ==
               [route |-> "fetch-data", param |-> n, code |-> Surface(exc).code,
                detail |-> Surface(exc).detail, cause |-> cause,
                vendor_calls |-> v, sessions |-> opened, swept |-> <<>>,
                body |-> body, at |-> wall, pre |-> db, post |-> post]
         IN  IF ~DaysBackValid(n)
             THEN /\ http' = rsp(HTTPException(400, "days_back must be between 1 and 365"),
                                 "validation", 0, 0, 0, db)
                  /\ UNCHANGED <<db, last>>
             ELSE \/ \* the vendor call raises
                     \E e \in VendorErrors :
                       /\ http' = rsp(AfterResult(ErrorResult(e)), "error", 1, 0, 0, db)
                       /\ UNCHANGED <<db, last>>
                  \/ \E data \in WindowBatches(wall.day, n) :
                       IF data = <<>>
                       THEN \* 'No data received from Google Analytics'
                            /\ http' = rsp(AfterResult([status |-> "warning", message |->
                                              "No data received from Google Analytics"]),
                                           "none", 1, 0, 0, db)
                            /\ UNCHANGED <<db, last>>
                       ELSE \E f \in FailPoints(data) :
                              LET res == PersistenceStore(db["analytics_data"],
                                                          data, f, now)
                                  result == IF res.status = "ok"
                                            THEN [status |-> "success", message |->
                                                    "Successfully processed records"]
                                            ELSE ErrorResult(StorageError)
                              IN  /\ db' = [db EXCEPT !["analytics_data"] = res.table]
                                  /\ last' = Record("persistence", "analytics_data",
                                                    data, f, res)
                                  /\ http' = rsp(AfterResult(result),
                                                 IF res.status = "ok" THEN "none" ELSE "error",
                                                 1, res.opened, Len(data),
                                                 [db EXCEPT !["analytics_data"] = res.table])
    /\ calls' = calls + 1
    /\ UNCHANGED <<now, client, call, wall, summary, cycle>>
    /\ UNCHANGED runVars

\* the wall clock moves on: later the same day, or midnight of the next day
AdvanceWall ==
    /\ \/ /\ wall.tod < MaxTod
          /\ wall' = [wall EXCEPT !.tod = @ + 1]
       \/ /\ wall.day < MaxWallDay
          /\ wall' = [day |-> wall.day + 1, tod |-> 0]
    /\ UNCHANGED <<storeVars, client, call, http, summary, cycle>>
    /\ UNCHANGED runVars

\* the analytics rows the service finds: any of one row per day, stored at
\* time 0; the other tables hold their seed row
SeedRowOn(d) ==
    [SeedRow("analytics_data") EXCEPT !.id = d, !.date = d]

WebSeedDbs ==
    {[t \in Tables |-> IF t = "analytics_data" THEN S ELSE {SeedRow(t)}] :
       S \in SUBSET {SeedRowOn(d) : d \in Dates}}

InitWeb ==
    /\ db \in WebSeedDbs
    /\ now = 0
    /\ calls = 0
    /\ last = NoOp
    /\ NoRun
    /\ client = FALSE
    /\ call = NoCall
    /\ wall = Midnight(FirstWallDay)
    /\ http = NoRequest
    /\ summary = NoSummary
    /\ cycle = NoCycles

NextWeb == PostFetchData \/ PostCleanupData \/ Cleanup \/ AdvanceWall

SpecWeb == InitWeb /\ [][NextWeb]_vars

\* ------------------------------------------------------------ ads adapter
MaxCount == 1      \* each raw count of a vendor row runs 0..MaxCount
MaxRows  == 2      \* longest response of the vendor's search call

Max(a, b) == IF a >= b THEN a ELSE b

\* a float as an exact fraction; err marks a ZeroDivisionError
Zero == [err |-> FALSE, num |-> 0, den |-> 1]

\* a / b
Frac(a, b) ==
    IF b = 0 THEN [err |-> TRUE, num |-> 0, den |-> 1]
    ELSE [err |-> FALSE, num |-> a, den |-> b]

\* q / b
Over(q, b) ==
    IF q.err \/ b = 0 THEN [err |-> TRUE, num |-> 0, den |-> 1]
    ELSE [err |-> FALSE, num |-> q.num, den |-> q.den * b]

\* q * k
Times(q, k) == IF q.err THEN q ELSE [q EXCEPT !.num = @ * k]

Counts == 0..MaxCount

\* a row of the vendor's response: row.metrics.*; ctr and average_cpc are
\* the vendor's own ratios, 0 when their denominator is 0
RawRows ==
    {[impressions |-> i, clicks |-> c, cost_micros |-> m, conversions |-> v,
      ctr |-> IF i = 0 THEN Zero ELSE Frac(c, i),
      average_cpc |-> IF c = 0 THEN Zero ELSE Frac(m, c)] :
       i \in Counts, c \in Counts, m \in Counts, v \in Counts}

RawBatches == UNION {[1..n -> RawRows] : n \in 0..MaxRows}

\* the record fetch_campaign_performance builds from a row
CampaignRecord(row) ==
    [impressions |-> row.impressions, clicks |-> row.clicks,
     cost_micros |-> row.cost_micros, conversions |-> row.conversions,
     ctr |-> row.ctr,
     cpc |-> Over(row.average_cpc, 1000000),
     cost_per_conversion |->
        Over(Frac(row.cost_micros, 1000000), Max(row.conversions, 1)),
     conversion_rate |->
        Times(Frac(row.conversions, Max(row.clicks, 1)), 100)]

\* a record of _get_mock_campaign_data: impressions, clicks, cost (in cents)
\* and conversions are random.randint values
MockRecord(impressions, clicks, cost, conversions) ==
    [impressions |-> impressions, clicks |-> clicks,
     cost_micros |-> cost * 10000, conversions |-> conversions,
     ctr |-> Times(Frac(clicks, Max(impressions, 1)), 100),
     cpc |-> Frac(cost, Max(clicks * 100, 1)),
     cost_per_conversion |-> Over(Frac(cost, 100), Max(conversions, 1)),
     conversion_rate |-> Times(Frac(conversions, Max(clicks, 1)), 100)]

\* the ends of the randint ranges: impressions 50..500, clicks 2..30,
\* cost 500..5000, conversions 0..5
MockRecords ==
    {MockRecord(i, c, m, v) : i \in {50, 500}, c \in {2, 30}, m \in {500, 5000},
                              v \in {0, 5}}

\* the mock list of a one-day window: one record per campaign
MockLists == [1..Len(MockCampaigns) -> MockRecords]

\* a call of fetch_campaign_performance
FetchCampaignPerformance ==
    /\ \E vendor \in AdsVendor(client) :
         \E rows \in (IF vendor = "rows" THEN RawBatches ELSE {<<>>}) :
           \E mock \in (IF vendor = "rows" THEN {<<>>} ELSE MockLists) :
             LET live == [i \in 1..Len(rows) |-> CampaignRecord(rows[i])]
                 r    == fetch_campaign_performance(client, vendor, live, mock)
             IN  call' = [op |-> "fetch_campaign_performance", client |-> client,
                          vendor |-> vendor, origin |-> r.origin, data |-> r.data,
                          raised |-> FALSE]
    /\ UNCHANGED <<storeVars, client, wall, http, summary, cycle>>
    /\ UNCHANGED runVars

RECURSIVE SumField(_, _, _)
\* total_x += row.metrics.x over the first n rows
SumField(rows, n, x) == IF n = 0 THEN 0 ELSE SumField(rows, n - 1, x) + rows[n][x]

\* _get_mock_summary: average_ctr 3.0, average_cpc 1.67, cost_per_conversion 15.69
MockSummary ==
    [total_impressions |-> 2500, total_clicks |-> 75, total_conversions |-> 8,
     average_ctr |-> Frac(3, 1), average_cpc |-> Frac(167, 100),
     cost_per_conversion |-> Frac(1569, 100)]

\* fetch_account_performance: without a client 'not_configured'; the sums
\* and ratios of the response with status 'connected'; on any exception
\* 'error_with_fallback' with the exception text: nothing is raised
fetch_account_performance(cl, vendor, rows) ==
    IF ~cl
    THEN [status |-> "not_configured", error |-> "", summary |-> MockSummary]
    ELSE IF vendor # "rows"
    THEN [status |-> "error_with_fallback", error |-> vendor, summary |-> MockSummary]
    ELSE LET n                 == Len(rows)
             total_impressions == SumField(rows, n, "impressions")
             total_clicks      == SumField(rows, n, "clicks")
             total_cost        == SumField(rows, n, "cost_micros")
             total_conversions == SumField(rows, n, "conversions")
         IN  [status |-> "connected", error |-> "",
              summary |->
                [total_impressions |-> total_impressions,
                 total_clicks |-> total_clicks,
                 total_cost_micros |-> total_cost,
                 total_conversions |-> total_conversions,
                 average_ctr |->
                    Times(Frac(total_clicks, Max(total_impressions, 1)), 100),
                 average_cpc |->
                    Over(Frac(total_cost, 1000000), Max(total_clicks, 1)),
                 cost_per_conversion |->
                    Over(Frac(total_cost, 1000000), Max(total_conversions, 1))]]

\* a call of fetch_account_performance
FetchAccountPerformance ==
    /\ \E vendor \in AdsVendor(client) :
         \E rows \in (IF vendor = "rows" THEN RawBatches ELSE {<<>>}) :
           LET r == fetch_account_performance(client, vendor, rows)
           IN  call' = [op |-> "fetch_account_performance", client |-> client,
                        vendor |-> vendor, status |-> r.status, error |-> r.error,
                        summary |-> r.summary, raised |-> FALSE]
    /\ UNCHANGED <<storeVars, client, wall, http, summary, cycle>>
    /\ UNCHANGED runVars

\* get_account_info: without a client 'not_configured'; else 'connected'
\* unless fetch_account_performance raises, which gives 'error' and str(e)
get_account_info(cl, vendor, rows) ==
    IF ~cl THEN [status |-> "not_configured", error |-> ""]
    ELSE LET account_data == fetch_account_performance(cl, vendor, rows)
         IN  [status |-> "connected", error |-> ""]

\* get_property_info and get_site_info: 'connected' when the fetch returned,
\* 'error' and str(e) when it raised
get_info(vendor) ==
    IF vendor = "rows" THEN [status |-> "connected", error |-> ""]
    ELSE [status |-> "error", error |-> vendor]

\* what the vendor call of the analytics and of the search console probe does
ProbeVendor == {"rows"} \cup VendorErrors

\* test_all_connections: the three probes
TestAllConnections ==
    /\ \E ga \in ProbeVendor : \E gsc \in ProbeVendor : \E ads \in AdsVendor(client) :
         \E rows \in (IF ads = "rows" THEN {L \in RawBatches : Len(L) <= 1} ELSE {<<>>}) :
           call' = [op |-> "test_all_connections", client |-> client,
                    vendor |-> [google_analytics |-> ga, search_console |-> gsc,
                                google_ads |-> ads],
                    report |-> [google_analytics |-> get_info(ga),
                                search_console |-> get_info(gsc),
                                google_ads |-> get_account_info(client, ads, rows)],
                    raised |-> FALSE]
    /\ UNCHANGED <<storeVars, client, wall, http, summary, cycle>>
    /\ UNCHANGED runVars

InitAds ==
    /\ db = EmptyDb
    /\ now = 0
    /\ calls = 0
    /\ last = NoOp
    /\ NoRun
    /\ client \in BOOLEAN
    /\ NoAux

NextAds == FetchCampaignPerformance \/ FetchAccountPerformance \/ TestAllConnections

SpecAds == InitAds /\ [][NextAds]_vars

\* ---------------------------------------------------------------- summary
\* None of a date, and of an entity id
NoDate == [none |-> TRUE]

NoEntity == "None"

\* ga_latest.date.isoformat(): the text of the DateTime value of the column
IsoFormat(d) == [isoformat |-> Midnight(d)]

\* mutant: the lookup orders by date ascending
LatestRowsAsc(tbl) == {r \in tbl : \A q \in tbl : q.date >= r.date}

\* session.query(Model).order_by(Model.date.desc()).first(): a row of the
\* largest date; which one among several is not fixed by the query
LatestRows(tbl) == {r \in tbl : \A q \in tbl : q.date <= r.date}

\* the entry of one domain, latest being the row first() gave (or none)
SummaryEntry(tbl, latest) ==
    [total_records |-> Cardinality(tbl),
     latest_date |-> IF latest = <<>> THEN NoDate ELSE IsoFormat(latest[1].date),
     entity_id |-> IF latest = <<>> THEN NoEntity ELSE latest[1].entity]

\* what first() can give on a table
FirstLatest(tbl) == IF tbl = {} THEN {<<>>} ELSE {<<r>> : r \in LatestRows(tbl)}

\* get_unified_summary: three counts and three lookups in one session; an
\* exception gives {'error': str(e), 'total_records': 0}
GetUnifiedSummary ==
    /\ calls < MaxCalls
    /\ \/ summary' = [taken |-> TRUE, failed |-> TRUE, of |-> db,
                       events |-> SessionEvents("summary", TRUE),
                       report |-> [error |-> StorageError, total_records |-> 0]]
       \/ \E ga \in FirstLatest(db["analytics_data"]) :
          \E gsc \in FirstLatest(db["search_console_data"]) :
          \E ads \in FirstLatest(db["google_ads_data"]) :
            summary' =
              [taken |-> TRUE, failed |-> FALSE, of |-> db,
               events |-> SessionEvents("summary", FALSE),
               report |->
                 [google_analytics |-> SummaryEntry(db["analytics_data"], ga),
                  search_console |-> SummaryEntry(db["search_console_data"], gsc),
                  google_ads |-> SummaryEntry(db["google_ads_data"], ads),
                  total_records |-> Cardinality(db["analytics_data"])
                                    + Cardinality(db["search_console_data"])
                                    + Cardinality(db["google_ads_data"])]]
    /\ calls' = calls + 1
    /\ UNCHANGED <<db, now, last, client, call, wall, http, cycle>>
    /\ UNCHANGED runVars

\* the tables the service can find: all empty, or each with a row of day
\* MaxDate stored while another entity id was configured
SummarySeedDbs ==
    {EmptyDb,
     [t \in Tables |-> {[SeedRow(t) EXCEPT !.entity = "earlier", !.date = MaxDate]}]}

InitSummary ==
    /\ db \in SummarySeedDbs
    /\ now = 0
    /\ calls = 0
    /\ last = NoOp
    /\ NoRun
    /\ client = FALSE
    /\ NoAux

NextSummary == StoreUnified \/ GetUnifiedSummary

SpecSummary == InitSummary /\ [][NextSummary]_vars

\* --------------------------------------------------------------- sessions
\* the operations of the service run one after another: a cleanup or a
\* summary is served before a run starts or after it returned
NoRunActive == pc \in {"idle", "returned"}

\* the tables are empty, or hold the rows an earlier run left
SessionSeedDbs == {EmptyDb, [t \in Tables |-> {SeedRow(t)}]}

InitSession ==
    /\ db \in SessionSeedDbs
    /\ now = 0
    /\ calls = 0
    /\ last = NoOp
    /\ NoRun
    /\ client \in BOOLEAN
    /\ call = NoCall
    /\ wall = Midnight(MaxWallDay)
    /\ http = NoRequest
    /\ summary = NoSummary
    /\ cycle = NoCycles

NextSession ==
    \/ StartRun \/ FetchStoreGA \/ FetchStoreGSC \/ FetchStoreAds \/ OverallStatus
    \/ (NoRunActive /\ Cleanup)
    \/ (NoRunActive /\ GetUnifiedSummary)

SpecSession == InitSession /\ [][NextSession]_vars

\* ----------------------------------------------------------- date windows
\* the days_back values of the calls: the ends of the accepted range, the
\* default and two values between
WindowInputs == {MinDaysBack, 2, DefaultDaysBack, 30, MaxDaysBack}

\* timedelta(days=...) subtracted from datetime.now().date() to get end_date:
\* 3 for search console ("has a 3-day delay"), 1 for ads ("Yesterday"),
\* nothing for analytics
Lag(s) ==
    CASE s = "google_analytics" -> 0
      [] s = "search_console"   -> 3
      [] s = "google_ads"       -> 1

\* date.strftime('%Y-%m-%d'): the text of a calendar day
StrfTime(d) == [format |-> "%Y-%m-%d", of |-> d]

\* fetch_data_for_date_range(days_back): end_date = today - lag,
\* start_date = end_date - timedelta(days=days_back); both are passed on as
\* text
fetch_data_for_date_range(s, today, days_back) ==
    LET end_date   == today - Lag(s)
        start_date == end_date - days_back
    IN  [start_date |-> StrfTime(start_date), end_date |-> StrfTime(end_date)]

\* the calendar days the vendor's report covers for a request: startDate and
\* endDate of the search console query, DateRange of the analytics report and
\* BETWEEN of the ads query include both ends
RequestedDays(request) == request.start_date.of .. request.end_date.of

\* a call of fetch_data_for_date_range of one of the three adapters
FetchDataForDateRange ==
    /\ \E s \in Sources : \E n \in WindowInputs :
         call' = [op |-> "fetch_data_for_date_range", source |-> s, days_back |-> n,
                  today |-> wall.day,
                  request |-> fetch_data_for_date_range(s, wall.day, n)]
    /\ UNCHANGED <<storeVars, client, wall, http, summary, cycle>>
    /\ UNCHANGED runVars

InitWindow ==
    /\ db = EmptyDb
    /\ now = 0
    /\ calls = 0
    /\ last = NoOp
    /\ NoRun
    /\ client = FALSE
    /\ call = NoCall
    /\ wall = Midnight(FirstWallDay)
    /\ http = NoRequest
    /\ summary = NoSummary
    /\ cycle = NoCycles

NextWindow == FetchDataForDateRange \/ AdvanceWall

SpecWindow == InitWindow /\ [][NextWindow]_vars

\* ------------------------------------------------------ concurrent cycles
\* two processes store into analytics_data at the same time: the on-demand
\* request (DataPersistenceService.store_analytics_data) and an import
\* (UnifiedDataService._store_analytics_data)
Procs == {"request", "import"}

\* a process about to call its store method with the list data; pre is the
\* table at that time
Waiting(data, tbl) ==
    [pc |-> "start", data |-> data, i |-> 1, existing |-> <<>>, dirty |-> {},
     new |-> <<>>, stored_count |-> 0, pre |-> tbl]

\* a step of a store call leaves everything but the table and the sessions
CycleFrame ==
    /\ UNCHANGED <<now, calls, last, client, call, wall, http, summary>>
    /\ UNCHANGED runVars

\* _store_analytics_data: "if not analytics_data: return 0", then
\* session = get_db_session(); store_analytics_data opens the session first
\* and runs the loop over the empty list
CycleOpen(p) ==
    /\ cycle[p].pc = "start"
    /\ cycle' = [cycle EXCEPT ![p].pc =
                   IF cycle[p].data # <<>> THEN "lookup"
                   ELSE IF p = "import" THEN "done" ELSE "commit"]
    /\ UNCHANGED db
    /\ CycleFrame

\* the object the session holds for the row of this id: the one it loaded
\* before, or the committed row
Loaded(c, r) ==
    IF \E o \in c.dirty : o.id = r.id
    THEN (CHOOSE o \in c.dirty : o.id = r.id).current
    ELSE r

\* existing = session.query(AnalyticsData).filter(...).first(): the query
\* reads the rows committed so far, by whatever process
CycleLookup(p) ==
    LET c   == cycle[p]
        tbl == db["analytics_data"]
        id  == Lookup(tbl, c.data[c.i])
    IN  /\ c.pc = "lookup"
        /\ cycle' = [cycle EXCEPT
                       ![p].existing = IF id = 0 THEN <<>>
                                       ELSE <<Loaded(c, CHOOSE r \in tbl : r.id = id)>>,
                       ![p].pc = "insert"]
        /\ UNCHANGED db
        /\ CycleFrame

\* if existing: setattr(...), updated_at / else: session.add(new_record),
\* stored_count += 1; both change the session only
CycleInsert(p) ==
    LET c   == cycle[p]
        rec == c.data[c.i]
        nxt == IF c.i < Len(c.data) THEN "lookup" ELSE "commit"
    IN  /\ c.pc = "insert"
        /\ IF c.existing # <<>>
           THEN LET row  == c.existing[1]
                    orig == IF \E o \in c.dirty : o.id = row.id
                            THEN (CHOOSE o \in c.dirty : o.id = row.id).loaded
                            ELSE row
                IN  cycle' = [cycle EXCEPT
                      ![p].dirty = {o \in c.dirty : o.id # row.id}
                                   \cup {[id |-> row.id, loaded |-> orig,
                                          current |-> UpdateRow("analytics_data", row,
                                                                rec, now)]},
                      ![p].i = c.i + 1, ![p].pc = nxt]
           ELSE cycle' = [cycle EXCEPT
                      ![p].new = Append(c.new, NewRow("analytics_data", rec, now)),
                      ![p].stored_count = c.stored_count + 1,
                      ![p].i = c.i + 1, ![p].pc = nxt]
        /\ UNCHANGED db
        /\ CycleFrame

\* the UPDATE of a changed object: the attributes whose value differs from
\* the loaded one are written to the row of its id
Flush(r, dirty) ==
    IF \E o \in dirty : o.id = r.id
    THEN LET o == CHOOSE o \in dirty : o.id = r.id
         IN  [r EXCEPT !.vals = [col \in DOMAIN r.vals |->
                                   IF o.current.vals[col] # o.loaded.vals[col]
                                   THEN o.current.vals[col] ELSE r.vals[col]],
                       !.updated_at = o.current.updated_at]
    ELSE r

\* session.commit() on the table as it is now: the UPDATEs of the changed
\* objects and the INSERTs of the pending ones; no constraint of the table
\* (database.py:12-14: only the id is a key) rejects a second row of a key
ConcurrentCommit(tbl, c) ==
    {Flush(r, c.dirty) : r \in tbl}
    \cup {[c.new[i] EXCEPT !.id = MaxIdOf(tbl) + i] : i \in 1..Len(c.new)}

\* session.commit() and return, or an exception of the commit (the database
\* is locked by the other writer): rollback and raise
CycleCommit(p) ==
    /\ cycle[p].pc = "commit"
    /\ \/ /\ db' = [db EXCEPT !["analytics_data"] = ConcurrentCommit(@, cycle[p])]
          /\ cycle' = [cycle EXCEPT ![p].pc = "done"]
       \/ /\ cycle' = [cycle EXCEPT ![p].pc = "raised"]
          /\ UNCHANGED db
    /\ CycleFrame

\* the table is empty or holds the seed row
ConcurrentSeedDbs ==
    {EmptyDb, [EmptyDb EXCEPT !["analytics_data"] = {SeedRow("analytics_data")}]}

InitConcurrent ==
    /\ db \in ConcurrentSeedDbs
    /\ now = 0
    /\ calls = 0
    /\ last = NoOp
    /\ NoRun
    /\ client = FALSE
    /\ call = NoCall
    /\ wall = [day |-> MaxDate, tod |-> 0]
    /\ http = NoRequest
    /\ summary = NoSummary
    /\ cycle \in [Procs -> {Waiting(L, db["analytics_data"]) :
                              L \in RunBatches("analytics_data")}]

NextConcurrent ==
    \E p \in Procs : CycleOpen(p) \/ CycleLookup(p) \/ CycleInsert(p) \/ CycleCommit(p)

SpecConcurrent == InitConcurrent /\ [][NextConcurrent]_vars

\* ---------------------------------------------------------- unknown fields
\* a key of a record that is no column of the table
UnknownField == "medium"

\* the records a caller of store() can pass: those of the adapters, and the
\* same with one more key
AnyRecords(t) ==
    Records(t) \cup
    {[r EXCEPT !.vals = [c \in DOMAIN r.vals \cup {UnknownField} |->
                           IF c = UnknownField THEN 1 ELSE r.vals[c]]] :
       r \in Records(t)}

AnyBatches(t) == UNION {[1..n -> AnyRecords(t)] : n \in 0..MaxBatch}

\* one call of a store method of analytics_data with such a list
StoreAnyRecords ==
    /\ calls = 0
    /\ \E L \in AnyBatches("analytics_data") :
         \/ \E f \in StoreFailPoints(L) :
              LET res == UnifiedStore("analytics_data", db["analytics_data"], L, f, now)
              IN  /\ db' = [db EXCEPT !["analytics_data"] = res.table]
                  /\ last' = Record("unified", "analytics_data", L, f, res)
         \/ \E f \in FailPoints(L) :
              LET res == PersistenceStore(db["analytics_data"], L, f, now)
              IN  /\ db' = [db EXCEPT !["analytics_data"] = res.table]
                  /\ last' = Record("persistence", "analytics_data", L, f, res)
    /\ calls' = calls + 1
    /\ UNCHANGED now
    /\ UNCHANGED runVars
    /\ UNCHANGED auxVars

InitSchema ==
    /\ db \in ConcurrentSeedDbs
    /\ now \in 0..MaxTime
    /\ calls = 0
    /\ last = NoOp
    /\ NoRun
    /\ client = FALSE
    /\ NoAux

NextSchema == StoreAnyRecords

SpecSchema == InitSchema /\ [][NextSchema]_vars

\* -------------------------------------------------- analytics adapter fetch
\* the records fetch_basic_metrics builds: no traffic-source key
BasicRecords == {r \in Records("analytics_data") : DOMAIN r.vals = {"sessions"}}

\* what a call of fetch_basic_metrics does: it raises, or returns a list
BasicOutcomes ==
    {[raised |-> TRUE, rows |-> <<>>]}
    \cup {[raised |-> FALSE, rows |-> L] :
            L \in UNION {[1..n -> BasicRecords] : n \in 0..MaxBatch}}

\* what a call of fetch_traffic_sources does: it raises, or returns one
\* record per day the report has rows for, with the sessions per channel
TrafficOutcomes ==
    {[raised |-> TRUE, rows |-> {}]}
    \cup {[raised |-> FALSE,
           rows |-> {[date |-> d, organic_sessions |-> 1] : d \in D}] :
            D \in SUBSET Dates}

\* enhanced_record = {**basic_record, 'organic_sessions':
\* traffic_record.get('organic_sessions', 0), ...}, traffic_record being the
\* record of the same date, or the all-zero default
Merged(basic_record, traffic_data) ==
    LET same == {t \in traffic_data : t.date = basic_record.date}
        organic == IF same = {} THEN 0 ELSE (CHOOSE t \in same : TRUE).organic_sessions
    IN  [basic_record EXCEPT !.vals =
           [c \in {"sessions", "organic_sessions"} |->
              IF c = "sessions" THEN basic_record.vals[c] ELSE organic]]

\* mutant: when a query fails, the records are merged with the all-zero
\* default instead of being fetched again as basic records
fetch_enhanced_metrics_zero_fill(basic, traffic, again) ==
    IF ~basic.raised /\ ~traffic.raised
    THEN [raised |-> FALSE, fallback |-> FALSE,
          data |-> [i \in 1..Len(basic.rows) |-> Merged(basic.rows[i], traffic.rows)]]
    ELSE IF again.raised
    THEN [raised |-> TRUE, fallback |-> TRUE, data |-> <<>>]
    ELSE [raised |-> FALSE, fallback |-> TRUE,
          data |-> [i \in 1..Len(again.rows) |-> Merged(again.rows[i], {})]]

\* fetch_enhanced_metrics: try: basic_data, traffic_data, merge by date;
\* except Exception: return self.fetch_basic_metrics(start_date, end_date),
\* a second call of the vendor, which can raise as well
fetch_enhanced_metrics(basic, traffic, again) ==
    IF ~basic.raised /\ ~traffic.raised
    THEN [raised |-> FALSE, fallback |-> FALSE,
          data |-> [i \in 1..Len(basic.rows) |-> Merged(basic.rows[i], traffic.rows)]]
    ELSE IF again.raised
    THEN [raised |-> TRUE, fallback |-> TRUE, data |-> <<>>]
    ELSE [raised |-> FALSE, fallback |-> TRUE, data |-> again.rows]

\* the Google Analytics block of a run on its own: the adapter's fetch, then
\* _store_analytics_data of what it returned
FetchEnhancedStore ==
    /\ calls = 0
    /\ \E basic \in BasicOutcomes : \E traffic \in TrafficOutcomes :
       \E again \in BasicOutcomes :
         LET r == fetch_enhanced_metrics(basic, traffic, again)
         IN  /\ call' = [op |-> "fetch_enhanced_metrics",
                         basic_raised |-> basic.raised,
                         traffic_raised |-> traffic.raised,
                         fallback |-> r.fallback, raised |-> r.raised,
                         data |-> r.data]
             /\ IF r.raised
                THEN UNCHANGED <<db, last>>
                ELSE \E f \in StoreFailPoints(r.data) :
                       LET res == UnifiedStore("analytics_data", db["analytics_data"],
                                               r.data, f, now)
                       IN  /\ db' = [db EXCEPT !["analytics_data"] = res.table]
                           /\ last' = Record("unified", "analytics_data", r.data, f, res)
    /\ calls' = calls + 1
    /\ UNCHANGED <<now, client, wall, http, summary, cycle>>
    /\ UNCHANGED runVars

InitFallback ==
    /\ db \in ConcurrentSeedDbs
    /\ now \in 0..MaxTime
    /\ calls = 0
    /\ last = NoOp
    /\ NoRun
    /\ client = FALSE
    /\ NoAux

NextFallback == FetchEnhancedStore

SpecFallback == InitFallback /\ [][NextFallback]_vars

\* ------------------------------------------------------------------ claims
Ids(tbl) == {r.id : r \in tbl}

RowById(tbl, id) == CHOOSE r \in tbl : r.id = id

StoreOk == last.op = "store" /\ last.status = "ok"

\* indices of the list whose key the table did not hold before the call
Fresh(L, pre) == {i \in 1..Len(L) : KeyOf(L[i]) \notin Keys(pre)}

\* C1: no domain table ever holds two rows with the same key tuple
\* (entity id, sub-entity id, date), whatever lists store() was given.
C1_UniqueKeys ==
    \A t \in Tables : \A r1, r2 \in db[t] : KeyOf(r1) = KeyOf(r2) => r1 = r2

\* C2: after a store() call that returned, every row the table held before
\* keeps its id and created_at; for every input record whose key was in the
\* table, a row it held under that key now has updated_at = the time of the
\* call, and no row created by the call carries that key.
C2_ExistingKept ==
    StoreOk =>
      LET pre  == last.pre[last.table]
          post == db[last.table]
          L    == last.input
      IN  /\ \A r \in pre : \E q \in post :
                q.id = r.id /\ KeyOf(q) = KeyOf(r) /\ q.created_at = r.created_at
          /\ \A i \in 1..Len(L) : KeyOf(L[i]) \in Keys(pre) =>
                /\ \E r \in pre : /\ KeyOf(r) = KeyOf(L[i])
                                  /\ RowById(post, r.id).updated_at = last.at
                /\ \A q \in post : KeyOf(q) = KeyOf(L[i]) => q.id \in Ids(pre)

\* a call updated a row created at an earlier time
C2_Witness ==
    /\ StoreOk
    /\ \E i \in 1..Len(last.input) : \E r \in last.pre[last.table] :
         /\ KeyOf(r) = KeyOf(last.input[i])
         /\ r.created_at < last.at
         /\ RowById(db[last.table], r.id).updated_at = last.at

\* C3: after a store() call that returned, the returned count equals the
\* number of input records whose key the table did not hold, which equals
\* the growth of the table, and each such record has its own new row.
C3_InsertCount ==
    StoreOk =>
      LET pre   == last.pre[last.table]
          post  == db[last.table]
          L     == last.input
          fresh == Fresh(L, pre)
          added == {q \in post : q.id \notin Ids(pre)}
      IN  /\ last.ret = Cardinality(fresh)
          /\ Cardinality(post) - Cardinality(pre) = Cardinality(fresh)
          /\ Cardinality(added) = Cardinality(fresh)
          /\ \A q \in added : \E i \in fresh : KeyOf(L[i]) = KeyOf(q)
          /\ \A i \in fresh :
               Cardinality({q \in added : KeyOf(q) = KeyOf(L[i])})
                 = Cardinality({j \in fresh : KeyOf(L[j]) = KeyOf(L[i])})

\* a call got one record with a known key and one with a new key
C3_Witness ==
    /\ StoreOk
    /\ Len(last.input) = 2
    /\ Cardinality(Fresh(last.input, last.pre[last.table])) = 1
    /\ last.ret = 1

\* C4: a store() call that follows a returned store() call of the same list
\* on the same table leaves the row count as it was, and returns 0 when it
\* returns.
C4_Idempotent ==
    (last.op = "store" /\ last.repeat) =>
      /\ Cardinality(db[last.table]) = Cardinality(last.pre[last.table])
      /\ last.status = "ok" => last.ret = 0

\* the same non-empty list was stored twice in a row
C4_Witness ==
    /\ StoreOk /\ last.repeat
    /\ last.input # <<>>
    /\ last.pre[last.table] # {}

\* the value column c of the row matched by key k has after the list L was
\* merged into it: that of the last record of L with key k that carries c
MergedVal(L, k, c, old) ==
    LET idx == {i \in 1..Len(L) : KeyOf(L[i]) = k /\ c \in DOMAIN L[i].vals}
    IN  IF idx = {} THEN old
        ELSE L[CHOOSE i \in idx : \A j \in idx : j <= i].vals[c]

\* C5: when store() updates an existing row, a column present in the incoming
\* record takes the incoming value and a column absent from it keeps its
\* value, as do the key, the id and created_at; rows no record matched are
\* untouched.
C5_FieldMerge ==
    StoreOk =>
      LET t    == last.table
          pre  == last.pre[t]
          post == db[t]
          L    == last.input
      IN  \A r \in pre :
            LET q == RowById(post, r.id)
                \* r is the row first() returns for a record of the list
                matched == /\ \E i \in 1..Len(L) : KeyOf(L[i]) = KeyOf(r)
                           /\ \A r2 \in pre : KeyOf(r2) = KeyOf(r) => r.id <= r2.id
            IN  /\ r.id \in Ids(post)
                /\ q.entity = r.entity /\ q.sub = r.sub /\ q.date = r.date
                /\ q.created_at = r.created_at
                /\ ~matched => q = r
                /\ matched => \A c \in Columns(t) :
                                q.vals[c] = MergedVal(L, KeyOf(r), c, r.vals[c])

\* a basic record (no organic_sessions) updated a row whose organic_sessions
\* was set, and changed its sessions
C5_Witness ==
    /\ StoreOk /\ last.table = "analytics_data"
    /\ Len(last.input) = 1
    /\ DOMAIN last.input[1].vals = {"sessions"}
    /\ \E r \in last.pre["analytics_data"] :
         /\ KeyOf(r) = KeyOf(last.input[1])
         /\ r.vals["organic_sessions"] = 1
         /\ r.vals["sessions"] # last.input[1].vals["sessions"]

\* C6: a store() call in which a record or the commit fails raises, and
\* leaves every table exactly as it was before the call.
C6_Rollback ==
    (last.op = "store" /\ last.failAt # 0) =>
      /\ last.status = "raised"
      /\ db = last.pre

\* the second record of a batch failed after the first was an insert
C6_Witness ==
    /\ last.op = "store" /\ last.status = "raised"
    /\ Len(last.input) = 2 /\ last.failAt = 2
    /\ KeyOf(last.input[1]) \notin Keys(last.pre[last.table])

\* C7: a store operation called with an empty list returns 0, changes no
\* row and opens no session.
C7_EmptyNoSession ==
    (last.op = "store" /\ last.input = <<>>) =>
      /\ last.ret = 0
      /\ db = last.pre
      /\ last.opened = 0

Raisers == {s \in Sources : trace[s].raised # "none"}

\* C8: when fetch_and_store_all_data returns, each of the three sources was
\* attempted exactly once, and a source whose fetch or store raised has an
\* entry of status 'error' whose message is the exception text.
C8_ErrorsIsolated ==
    pc = "returned" =>
      \A s \in Sources :
        /\ trace[s].attempts = 1
        /\ trace[s].raised # "none" =>
             /\ results[s].status = "error"
             /\ results[s].message.text = trace[s].exc

\* the first source raised in fetch, the second in store, the third ran
C8_Witness ==
    /\ pc = "returned"
    /\ trace["google_analytics"].raised = "fetch"
    /\ trace["search_console"].raised = "store"
    /\ trace["google_ads"].attempts = 1
    /\ results["google_ads"].status = "success"

NumSuccess == Cardinality({s \in Sources : results[s].status = "success"})

\* C9: the overall status of a returned run is 'success' for 3 entries of
\* status 'success', 'partial_success' for 1 or 2, 'failed' for 0.
C9_OverallStatus ==
    pc = "returned" =>
      overall_status = CASE NumSuccess = 3 -> "success"
                         [] NumSuccess \in {1, 2} -> "partial_success"
                         [] NumSuccess = 0 -> "failed"

\* nothing raised, the ads list was empty: two entries are 'success'
C9_Witness ==
    /\ pc = "returned"
    /\ Raisers = {}
    /\ NumSuccess = 2
    /\ results["google_ads"].status = "warning"

\* the record L[i] is in the table: a row carries its key, and its values
\* unless a later record of the list has the same key
Present(tbl, L, i) ==
    \E q \in tbl :
      /\ KeyOf(q) = KeyOf(L[i])
      /\ (\A j \in 1..Len(L) : KeyOf(L[j]) = KeyOf(L[i]) => j <= i) =>
            \A c \in DOMAIN L[i].vals : q.vals[c] = L[i].vals[c]

\* C10: when exactly one source raised in a returned run, the overall status
\* is 'partial_success' and every record the other two fetched is in its table.
C10_OneRaises ==
    (pc = "returned" /\ Cardinality(Raisers) = 1) =>
      /\ overall_status = "partial_success"
      /\ \A s \in Sources \ Raisers : \A i \in 1..Len(trace[s].data) :
           Present(db[TableOf(s)], trace[s].data, i)

\* the second source raised; the first and the third fetched a record each
C10_Witness ==
    /\ pc = "returned"
    /\ Raisers = {"search_console"}
    /\ trace["google_analytics"].data # <<>>
    /\ trace["google_ads"].data # <<>>

\* the sources of the run that returned
RunSources == DOMAIN results

Returned == pc \in {"returned", "e_returned"}

\* C11: when the enhanced 6-source run returns, the overall status is
\* 'success' if at least 4 source entries have status 'success',
\* 'partial_success' if 2 or 3 have, and 'failed' if fewer than 2 have.
C11_EnhancedStatus ==
    pc = "e_returned" =>
      LET n == Cardinality({s \in EnhancedSources : results[s].status = "success"})
      IN  /\ n >= 4 => overall_status = "success"
          /\ n \in {2, 3} => overall_status = "partial_success"
          /\ n < 2 => overall_status = "failed"

\* two sources raised and four succeeded: the run is a 'success'
C11_Witness ==
    /\ pc = "e_returned"
    /\ Cardinality({s \in EnhancedSources : results[s].status = "success"}) = 4
    /\ Cardinality({s \in EnhancedSources : trace[s].raised # "none"}) = 2
    /\ overall_status = "success"

\* what a source contributes to the total: the length of the list it
\* fetched, or 0 when its block raised
Contribution(s) == IF trace[s].raised # "none" THEN 0 ELSE Len(trace[s].data)

\* C12: in the report of a returned run (3-source or 6-source),
\* total_records_processed is the sum of records_fetched over all source
\* entries, and a source that raised contributes 0 to it.
C12_TotalRecords ==
    Returned =>
      /\ \A s \in RunSources : results[s].records_fetched = Contribution(s)
      /\ total_records_processed =
            SumOver(RunSources, [s \in RunSources |-> Contribution(s)])

\* an enhanced run in which a store raised after its fetch returned a record
\* and another source fetched a record that was stored as an update
C12_Witness ==
    /\ pc = "e_returned"
    /\ \E s \in RunSources : trace[s].raised = "store" /\ trace[s].data # <<>>
    /\ \E s \in RunSources : results[s].records_fetched > results[s].records_stored
    /\ total_records_processed >= 2

CleanupOk == last.op = "cleanup" /\ last.status = "ok"

\* C13: cleanup_old_data(days_to_keep) deletes a row of analytics_data if and
\* only if its date is strictly older than the cutoff day (the calendar day
\* days_to_keep days before today): a row dated on the cutoff day or later
\* is kept; the returned count is the number of rows deleted.
C13_CleanupCutoff ==
    CleanupOk =>
      LET pre    == last.pre["analytics_data"]
          cutoff == last.at.day - last.input
      IN  /\ \A r \in pre : (r \notin db["analytics_data"]) <=> (r.date < cutoff)
          /\ db["analytics_data"] \subseteq pre
          /\ last.ret = Cardinality(pre \ db["analytics_data"])

\* C14: a fetch request whose days_back is outside 1..365 gets a 400
\* response, with no vendor call made, no session opened and no table
\* changed; a request with days_back in 1..365 is not answered 400 and
\* reaches the vendor call.
C14_DaysBackValidated ==
    http.route = "fetch-data" =>
      /\ (http.param < 1 \/ http.param > 365) =>
            /\ http.code = 400
            /\ http.vendor_calls = 0
            /\ http.sessions = 0
            /\ http.post = http.pre
      /\ (http.param >= 1 /\ http.param <= 365) =>
            /\ http.code # 400
            /\ http.vendor_calls = 1

\* a request of 400 days was rejected while the table held rows
C14_Witness ==
    /\ http.route = "fetch-data"
    /\ http.param = 400
    /\ http.code = 400
    /\ http.pre["analytics_data"] # {}

\* C15: a cleanup request whose days_to_keep is below 7 gets a 400 response
\* and no row is deleted; a request with days_to_keep of 7 or more runs the
\* retention sweep with that days_to_keep.
C15_DaysToKeepValidated ==
    http.route = "cleanup-data" =>
      /\ http.param < 7 =>
            /\ http.code = 400
            /\ http.swept = <<>>
            /\ http.post = http.pre
      /\ http.param >= 7 =>
            /\ http.code # 400
            /\ http.swept = <<http.param>>

\* a request of 6 days was rejected although a row was older than that
C15_Witness ==
    /\ http.route = "cleanup-data"
    /\ http.param = 6
    /\ http.code = 400
    /\ \E r \in http.post["analytics_data"] : r.date < http.at.day - 6

\* the ratio q is 0 and was computed without a division by zero
IsZero(q) == ~q.err /\ q.num = 0

\* C16: for every raw ads row or aggregate with non-negative counts, each
\* ratio the adapter derives (CTR, CPC, cost per conversion, conversion rate)
\* is computed without a division by zero, and is 0 whenever its true
\* denominator (impressions, clicks or conversions) is 0.
C16_SafeDivision ==
    /\ (call.op = "fetch_campaign_performance" /\ call.origin = "live") =>
         \A i \in 1..Len(call.data) :
           LET r == call.data[i]
           IN  /\ ~r.ctr.err /\ ~r.cpc.err
               /\ ~r.cost_per_conversion.err /\ ~r.conversion_rate.err
               /\ r.impressions = 0 => IsZero(r.ctr)
               /\ r.clicks = 0 => IsZero(r.cpc) /\ IsZero(r.conversion_rate)
               /\ r.conversions = 0 => IsZero(r.cost_per_conversion)
    /\ (call.op = "fetch_account_performance" /\ call.status = "connected") =>
         LET a == call.summary
         IN  /\ ~a.average_ctr.err /\ ~a.average_cpc.err /\ ~a.cost_per_conversion.err
             /\ a.total_impressions = 0 => IsZero(a.average_ctr)
             /\ a.total_clicks = 0 => IsZero(a.average_cpc)
             /\ a.total_conversions = 0 => IsZero(a.cost_per_conversion)

\* C17: when the ads client is not configured (client is None), a fetch
\* returns an empty list and does not raise, and the status probe reports
\* 'not_configured'.
C17_NotConfigured ==
    /\ (call.op = "fetch_campaign_performance" /\ ~call.client) =>
         /\ ~call.raised
         /\ call.data = <<>>
    /\ (call.op = "test_all_connections" /\ ~call.client) =>
         call.report["google_ads"].status = "not_configured"

\* C18: when the ads data of a returned run is the adapter's mock dataset,
\* the google_ads entry of the report differs from the entry of every live
\* fetch of the same number of records (with the same number stored).
C18_MockDistinct ==
    (/\ pc = "returned"
     /\ call.op = "fetch_campaign_performance"
     /\ call.origin = "mock"
     /\ trace["google_ads"].raised = "none") =>
      \A L \in [1..Len(call.data) -> Records("google_ads_data")] :
        results["google_ads"] # AdsEntry(L, results["google_ads"].records_stored)

\* C19: in the report of test_all_connections, a source whose client is
\* missing is 'not_configured', a source whose vendor call raised is 'error'
\* with the exception text, and a source is 'connected' only if its vendor
\* call completed without error.
C19_Probes ==
    call.op = "test_all_connections" =>
      \A s \in Sources :
        LET missing == s = "google_ads" /\ ~call.client
            raised  == call.vendor[s] \notin {"rows", "not called"}
            entry   == call.report[s]
        IN  /\ missing => entry.status = "not_configured"
            /\ raised => entry.status = "error" /\ entry.error = call.vendor[s]
            /\ entry.status = "connected" => call.vendor[s] = "rows"

MaxDateOf(tbl) == (CHOOSE r \in tbl : \A q \in tbl : q.date <= r.date).date

\* C20: a report of get_unified_summary that was computed without a storage
\* error holds, for each domain, the number of rows of its table, the
\* largest date of its rows (none for an empty table) and the entity id of a
\* row of that date, and as overall total the sum of the three counts.
C20_Summary ==
    (summary.taken /\ ~summary.failed) =>
      /\ \A s \in Sources :
            LET tbl == summary.of[TableOf(s)]
                e   == summary.report[s]
            IN  /\ e.total_records = Cardinality(tbl)
                /\ IF tbl = {}
                   THEN e.latest_date = NoDate /\ e.entity_id = NoEntity
                   ELSE /\ e.latest_date = IsoFormat(MaxDateOf(tbl))
                        /\ \E r \in tbl : r.date = MaxDateOf(tbl) /\ e.entity_id = r.entity
      /\ summary.report.total_records =
            SumOver(Sources, [s \in Sources |-> Cardinality(summary.of[TableOf(s)])])

\* a summary of tables of which one holds rows of two days and of two
\* entity ids, and one is empty
C20_Witness ==
    /\ summary.taken /\ ~summary.failed
    /\ \E t \in Tables :
         /\ \E r, q \in summary.of[t] : r.date < q.date
         /\ \E r, q \in summary.of[t] : r.entity # q.entity
    /\ summary.report.total_records >= 3

\* what one step of a run does to the tables: the block of source s, entered
\* with s not yet attempted, leaves the tables of the other sources as they
\* are, leaves every table as it is when its store raised, and has its
\* records in its table when nothing raised
BlockStep(s) ==
    (trace[s].attempts = 0 /\ trace'[s].attempts = 1) =>
      /\ \A t \in Tables \ {TableOf(s)} : db'[t] = db[t]
      /\ trace'[s].raised = "store" => db' = db
      /\ trace'[s].raised = "none" =>
           \A i \in 1..Len(trace'[s].data) :
             Present(db'[TableOf(s)], trace'[s].data, i)

\* C21: in a run of the orchestrator, a store call that fails and rolls back
\* leaves the rows committed for earlier sources and the tables of the other
\* sources unchanged, and the later sources are still attempted and stored:
\* when the run returns, every source was attempted and every record of a
\* source that did not raise is in its table.
C21_FailureIsolated ==
    [][/\ \A s \in Sources : BlockStep(s)
       /\ pc' = "returned" =>
            \A s \in Sources :
              /\ trace'[s].attempts = 1
              /\ trace'[s].raised = "none" =>
                   \A i \in 1..Len(trace'[s].data) :
                     Present(db'[TableOf(s)], trace'[s].data, i)]_vars

\* the store of the second source failed between an insert of the first
\* source and an insert of the third
C21_Witness ==
    /\ pc = "returned"
    /\ trace["search_console"].raised = "store"
    /\ trace["google_analytics"].raised = "none"
    /\ trace["google_ads"].raised = "none"
    /\ results["google_analytics"].records_stored = 1
    /\ results["google_ads"].records_stored >= 1
    /\ \E r \in db["analytics_data"] :
         KeyOf(r) = KeyOf(trace["google_analytics"].data[1]) /\ r.id # SeedRow("analytics_data").id

\* C22: every run of the 3-source or of the 6-source orchestrator, whatever
\* its sources raise in fetch or in store, goes on until it returns its
\* report; the overall status of a returned report is 'success',
\* 'partial_success' or 'failed', and no source entry is still 'skipped'.
C22_RunReturns ==
    /\ (pc # "idle") ~> Returned
    /\ [](Returned =>
            /\ overall_status \in {"success", "partial_success", "failed"}
            /\ \A s \in RunSources : results[s].status # "skipped")

\* an enhanced run returned although every one of its six blocks raised,
\* some in the fetch and some in the store
C22_Witness ==
    /\ pc = "e_returned"
    /\ \A s \in EnhancedSources : trace[s].raised # "none"
    /\ \E s \in EnhancedSources : trace[s].raised = "fetch"
    /\ \E s \in EnhancedSources : trace[s].raised = "store"
    /\ overall_status = "failed"

\* the sessions open after each of the session calls of a list
RECURSIVE OpenAfter(_, _)
OpenAfter(events, n) ==
    IF n = 0 THEN 0
    ELSE OpenAfter(events, n - 1)
         + (IF events[n] = "open" THEN 1 ELSE IF events[n] = "close" THEN -1 ELSE 0)

\* never more than one session open, and none left open at the end
OneAtATime(events) ==
    /\ \A n \in 0..Len(events) : OpenAfter(events, n) \in {0, 1}
    /\ OpenAfter(events, Len(events)) = 0

\* the session calls of the run so far, in the order of its blocks
CycleEvents ==
    trace["google_analytics"].events \o trace["search_console"].events
    \o trace["google_ads"].events

\* C23: within one fetch-and-store cycle at most one session is open at any
\* moment, and every session a store, a summary or a cleanup opens is closed
\* when the operation returns or raises.
C23_SessionsClosed ==
    /\ OneAtATime(CycleEvents)
    /\ OneAtATime(last.events)
    /\ last.opened = last.closed
    /\ summary.taken => OneAtATime(summary.events)

\* a run in which a store raised and two stores returned was followed by a
\* cleanup that raised and a summary that failed
C23_Witness ==
    /\ pc = "returned"
    /\ \E s \in Sources : trace[s].raised = "store"
    /\ Len(CycleEvents) = 9
    /\ last.op = "cleanup" /\ last.status = "raised" /\ last.opened = 1
    /\ summary.taken /\ summary.failed

\* C24: on the fetch and cleanup endpoints a failed validation is answered
\* 400, never 500; a fetch cycle that ended with status 'error', and an
\* exception of the cleanup, are answered 500 with the error text as detail.
C24_ErrorSurface ==
    http.route \in {"fetch-data", "cleanup-data"} =>
      /\ http.cause = "validation" => http.code = 400
      /\ (http.route = "fetch-data" /\ ~(http.param \in 1..365)) => http.code = 400
      /\ (http.route = "cleanup-data" /\ http.param < 7) => http.code = 400
      /\ http.cause \in {"error", "exception"} =>
            /\ http.code = 500
            /\ http.detail \in VendorErrors \cup {StorageError}
      /\ (http.cause = "error" /\ http.vendor_calls = 1 /\ http.sessions = 1) =>
            http.detail = StorageError

\* a fetch request whose store failed was answered 500 with the text of the
\* storage error
C24_Witness ==
    /\ http.route = "fetch-data"
    /\ http.cause = "error"
    /\ http.sessions = 1
    /\ http.code = 500
    /\ http.detail = StorageError

\* C25: when no fetch and no store raised in a returned run of the 3-source
\* orchestrator, the overall status is 'success', also when a source
\* returned zero records.
C25_NoRaiseSuccess ==
    (pc = "returned" /\ Raisers = {}) => overall_status = "success"

\* C26: for every n >= 1 the window fetch_data_for_date_range(n) requests
\* ends at today minus the vendor lag (3 days for search console, 1 for ads,
\* 0 for analytics) and covers exactly the last n calendar days up to that
\* end date, both ends included.
C26_DateWindow ==
    call.op = "fetch_data_for_date_range" =>
      LET lag == CASE call.source = "search_console"   -> 3
                   [] call.source = "google_ads"       -> 1
                   [] call.source = "google_analytics" -> 0
          end == call.today - lag
          n   == call.days_back
      IN  /\ call.request.end_date = StrfTime(end)
          /\ RequestedDays(call.request) = (end - n + 1)..end
          /\ Cardinality(RequestedDays(call.request)) = n

\* the keys both processes store that the table did not hold at the start
SharedFreshKeys ==
    {k \in {KeyOf(cycle["request"].data[i]) : i \in 1..Len(cycle["request"].data)} :
       /\ \E j \in 1..Len(cycle["import"].data) : KeyOf(cycle["import"].data[j]) = k
       /\ k \notin Keys(cycle["request"].pre)}

\* C27: when two fetch-and-store cycles run at the same time and both store
\* a record of the same key that the table does not hold yet, then in every
\* interleaving of their lookup, insert and commit steps the table ends with
\* exactly one row of that key.
C27_ConcurrentUnique ==
    (\A p \in Procs : cycle[p].pc = "done") =>
      \A k \in SharedFreshKeys :
        Cardinality({r \in db["analytics_data"] : KeyOf(r) = k}) = 1

\* the records of the list that carry a key unknown to the table
WithUnknown(t, L) == {i \in 1..Len(L) : ~(DOMAIN L[i].vals \subseteq Columns(t))}

\* C28: store() treats a record with a field unknown to the schema by
\* whether its key is in the table: on the update path the field is ignored
\* and the call succeeds (the known fields are merged as usual); on the insert
\* path the call raises and the whole batch is rolled back.
C28_UnknownField ==
    last.op = "store" =>
      LET t   == last.table
          pre == last.pre[t]
          L   == last.input
          unk == WithUnknown(t, L)
          ins == {i \in unk : KeyOf(L[i]) \notin Keys(pre)}
      IN  /\ ins # {} => last.status = "raised" /\ db = last.pre
          /\ (unk # {} /\ ins = {} /\ last.failAt = 0) =>
               /\ last.status = "ok"
               /\ \A q \in db[t] : DOMAIN q.vals = Columns(t)
               /\ \A r \in pre :
                    (\E i \in 1..Len(L) : KeyOf(L[i]) = KeyOf(r)) =>
                      \A c \in Columns(t) :
                        RowById(db[t], r.id).vals[c] = MergedVal(L, KeyOf(r), c, r.vals[c])

\* a list of two records with the unknown field, the first of a stored key
\* and the second of a new key: the call raised without a storage failure
\* and the update of the first record was rolled back
C28_Witness ==
    /\ last.op = "store" /\ last.failAt = 0 /\ last.status = "raised"
    /\ Len(last.input) = 2
    /\ WithUnknown(last.table, last.input) = {1, 2}
    /\ KeyOf(last.input[1]) \in Keys(last.pre[last.table])
    /\ KeyOf(last.input[2]) \notin Keys(last.pre[last.table])
    /\ \E r \in last.pre[last.table] :
         r.vals["sessions"] # last.input[1].vals["sessions"]
    /\ db = last.pre

\* C29: the retention sweep cleanup_old_data changes only the web-analytics
\* table: every row of the search-console and of the ads table, whatever its
\* age, is the same after the sweep as before it.
C29_CleanupFrame ==
    last.op = "cleanup" =>
      \A t \in {"search_console_data", "google_ads_data"} : db[t] = last.pre[t]

\* a sweep deleted an analytics row while the two other tables held rows
\* older than the cutoff
C29_Witness ==
    /\ CleanupOk
    /\ last.ret >= 1
    /\ \A t \in {"search_console_data", "google_ads_data"} :
         \E r \in db[t] : r.date < last.at.day - last.input

\* C30: when the traffic-source query fails, the analytics adapter returns
\* the basic records, which have no traffic-source field; stored over an
\* existing row such a record leaves the row's traffic-source count at its
\* earlier value, stored as a new row it sets the count to 0.
C30_FallbackKeepsSources ==
    (/\ call.op = "fetch_enhanced_metrics"
     /\ ~call.basic_raised /\ call.traffic_raised /\ ~call.raised) =>
      /\ call.fallback
      /\ \A i \in 1..Len(call.data) : "organic_sessions" \notin DOMAIN call.data[i].vals
      /\ (last.op = "store" /\ last.status = "ok") =>
           LET pre  == last.pre["analytics_data"]
               post == db["analytics_data"]
           IN  /\ last.input = call.data
               /\ \A r \in pre :
                    RowById(post, r.id).vals["organic_sessions"] = r.vals["organic_sessions"]
               /\ \A q \in post :
                    q.id \notin Ids(pre) => q.vals["organic_sessions"] = 0

\* after a failed traffic-source query two fallback records were stored: one
\* over a row whose count was 1 and whose sessions it changed, one as a new row
C30_Witness ==
    /\ call.op = "fetch_enhanced_metrics"
    /\ ~call.basic_raised /\ call.traffic_raised /\ call.fallback
    /\ last.op = "store" /\ last.status = "ok" /\ Len(last.input) = 2
    /\ \E r \in last.pre["analytics_data"] :
         /\ KeyOf(r) = KeyOf(last.input[1])
         /\ r.vals["organic_sessions"] = 1
         /\ r.vals["sessions"] # RowById(db["analytics_data"], r.id).vals["sessions"]
    /\ \E q \in db["analytics_data"] :
         q.id \notin Ids(last.pre["analytics_data"]) /\ q.vals["organic_sessions"] = 0

====
